---------------------------- MODULE Spec2Model ----------------------------
(***************************************************************************)
(* logvista: the log indexing / filtering engine and the orchestration     *)
(* around it (src/indexing.py, src/filtering.py, src/filelog.py,           *)
(* src/main.py).                                                           *)
(*                                                                         *)
(* Bytes and characters are one-character strings; "xFF" stands for the    *)
(* byte 0xFF (never valid UTF-8) and "uFFFD" for the replacement           *)
(* character it decodes to.  A byte string or a text is a sequence of      *)
(* them.  Python's 0-based half-open slices are kept: Slice(s, a, b) is    *)
(* s[a:b].                                                                 *)
(***************************************************************************)
EXTENDS Integers, Sequences, FiniteSets, TLC

VARIABLES
    disk,               \* path -> bytes of the file stored there
    mf,                 \* MainWindow.mf, the MappedLogFile
    idx,                \* MainWindow.idx (and model.log_index), a LogIndex
    view_rows,          \* model.view_rows
    active_time_bucket, \* MainWindow.active_time_bucket
    bins,               \* timeline._bins, the minute keys of its bars
    ui_enabled,         \* what _set_ui_enabled last set
    index_thread,       \* MainWindow.index_thread: 0 (None) or an index worker
    filter_thread,      \* MainWindow.filter_thread: 0 (None) or a filter worker
    cluster_thread,     \* MainWindow.cluster_thread: 0 (None) or a cluster worker
    iws,                \* the IndexWorker objects created so far
    fws,                \* the FilterWorker objects created so far
    cws,                \* the ClusterWorker objects created so far
    cluster_table,      \* the rows of MainWindow.cluster_table
    queue,              \* signals posted to the main thread, oldest first
    view_from,          \* history: the filter worker whose rows are the view
                        \* (0: the view was not set by a filter result)
    export_thread,      \* MainWindow.export_thread: 0 (None) or an export worker
    ews,                \* the ExportWorker objects created so far
    dialogs,            \* history: the titles of the message boxes shown
    reader              \* a thread inside MappedLogFile.readline_at

vars == <<disk, mf, idx, view_rows, active_time_bucket, bins, ui_enabled,
          index_thread, filter_thread, cluster_thread, iws, fws, cws,
          cluster_table, queue, view_from, export_thread, ews, dialogs,
          reader>>

(***************************************************************************)
(* Bounds of the model.                                                    *)
(***************************************************************************)
MaxRaw == 4        \* longest file enumerated byte by byte
MaxChunk == 3      \* largest small chunk_size tried (besides the default)
MaxFilters == 2    \* filter workers started in one behaviour
MaxLoads == 1      \* load_path calls in one behaviour
MaxExports == 1    \* export workers started in one behaviour
MaxReloads == 2    \* load_path calls in one behaviour of a window that reloads

\* active_time_bucket = None
NoBucket == <<>>

Min(a, b) == IF a < b THEN a ELSE b
Max(a, b) == IF a > b THEN a ELSE b

\* s[a:b] of Python, for 0 <= a
Slice(s, a, b) == SubSeq(s, a + 1, Min(b, Len(s)))

\* s[a:] of Python
SliceFrom(s, a) == SubSeq(s, a + 1, Len(s))

\* t in s, for sequences (Python's substring test)
Contains(s, t) ==
    \E i \in 1..(Len(s) - Len(t) + 1) : SubSeq(s, i, i + Len(t) - 1) = t

\* A slice or search bound k of Python on a sequence of n items: a negative
\* one counts from the end, and both ends are clipped
Norm(k, n) == IF k < 0 THEN Max(k + n, 0) ELSE Min(k, n)

\* s[a:b] of Python, for any integers a and b
PySlice(s, a, b) ==
    LET a1 == Norm(a, Len(s))
        b1 == Norm(b, Len(s))
    IN  IF a1 >= b1 THEN <<>> ELSE SubSeq(s, a1 + 1, b1)

\* buf.find(b"\n", start): the 0-based index of the first line feed at or
\* after start, or -1
Find(buf, start) ==
    LET hits == {i \in (Norm(start, Len(buf)) + 1)..Len(buf) : buf[i] = "\n"}
    IN  IF hits = {} THEN -1
        ELSE (CHOOSE i \in hits : \A j \in hits : i <= j) - 1

\* bytes.decode("utf-8", errors="replace") on ASCII bytes and 0xFF
Decode(bs) == [i \in 1..Len(bs) |-> IF bs[i] = "xFF" THEN "uFFFD" ELSE bs[i]]

LowerCase == <<"a","b","c","d","e","f","g","h","i","j","k","l","m",
               "n","o","p","q","r","s","t","u","v","w","x","y","z">>
UpperCase == <<"A","B","C","D","E","F","G","H","I","J","K","L","M",
               "N","O","P","Q","R","S","T","U","V","W","X","Y","Z">>

\* str.upper(), one character at a time
UpperChar(c) ==
    IF \E k \in 1..26 : LowerCase[k] = c
    THEN UpperCase[CHOOSE k \in 1..26 : LowerCase[k] = c]
    ELSE c

Upper(s) == [i \in 1..Len(s) |-> UpperChar(s[i])]

(***************************************************************************)
(* Severity tables.  indexing.py uses LEVEL_ORDER, LEVEL_WORDS,            *)
(* LEVEL_CANON, LEVEL_TO_INT and INT_TO_LEVEL without defining them in the *)
(* files at hand; they are set down here as the specification describes    *)
(* them (sections 4.2 and 6).                                              *)
(***************************************************************************)
W_TRACE == <<"T","R","A","C","E">>
W_DEBUG == <<"D","E","B","U","G">>
W_INFO == <<"I","N","F","O">>
W_WARN == <<"W","A","R","N">>
W_WARNING == <<"W","A","R","N","I","N","G">>
W_ERROR == <<"E","R","R","O","R">>
W_FATAL == <<"F","A","T","A","L">>
W_CRITICAL == <<"C","R","I","T","I","C","A","L">>

LEVEL_ORDER == <<W_TRACE, W_DEBUG, W_INFO, W_WARN, W_ERROR, W_FATAL, W_CRITICAL>>

LEVEL_WORDS ==
    <<W_TRACE, W_DEBUG, W_INFO, W_WARN, W_WARNING, W_ERROR, W_FATAL, W_CRITICAL>>

\* LEVEL_CANON.get(w, w)
LEVEL_CANON(w) == IF w = W_WARNING THEN W_WARN ELSE w

NoLevel == 255

\* LEVEL_TO_INT.get(lvl, 255)
LEVEL_TO_INT(lvl) ==
    IF \E k \in 1..Len(LEVEL_ORDER) : LEVEL_ORDER[k] = lvl
    THEN (CHOOSE k \in 1..Len(LEVEL_ORDER) : LEVEL_ORDER[k] = lvl) - 1
    ELSE NoLevel

\* INT_TO_LEVEL.get(n): <<>> stands for the None (or "") of a code that is
\* no level
INT_TO_LEVEL(n) ==
    IF n \in 0..(Len(LEVEL_ORDER) - 1) THEN LEVEL_ORDER[n + 1] ELSE <<>>

(***************************************************************************)
(* int(s) of Python on a short text: surrounding whitespace is stripped,   *)
(* one sign is allowed, and the rest is digits with single underscores     *)
(* between them.  IntOk says whether int(s) returns, IntVal what.          *)
(***************************************************************************)
Digits == <<"0","1","2","3","4","5","6","7","8","9">>

IsDigit(c) == \E k \in 1..10 : Digits[k] = c

DigitVal(c) == (CHOOSE k \in 1..10 : Digits[k] = c) - 1

IsSpace(c) == c \in {" ", "\t", "\r", "\n"}

Strip(s) ==
    LET keep == {i \in 1..Len(s) : ~IsSpace(s[i])}
    IN  IF keep = {} THEN <<>>
        ELSE SubSeq(s, CHOOSE i \in keep : \A j \in keep : i <= j,
                       CHOOSE i \in keep : \A j \in keep : i >= j)

Unsigned(s) ==
    IF s # <<>> /\ s[1] \in {"+", "-"} THEN Tail(s) ELSE s

IntOk(s) ==
    LET d == Unsigned(Strip(s))
    IN  /\ d # <<>>
        /\ \A i \in 1..Len(d) : IsDigit(d[i]) \/ d[i] = "_"
        /\ IsDigit(d[1]) /\ IsDigit(d[Len(d)])
        /\ \A i \in 1..(Len(d) - 1) : ~(d[i] = "_" /\ d[i + 1] = "_")

RECURSIVE DigitsVal(_)
DigitsVal(d) ==
    IF d = <<>> THEN 0
    ELSE IF d[Len(d)] = "_" THEN DigitsVal(SubSeq(d, 1, Len(d) - 1))
    ELSE DigitsVal(SubSeq(d, 1, Len(d) - 1)) * 10 + DigitVal(d[Len(d)])

IntVal(s) ==
    LET t == Strip(s)
    IN  IF t[1] = "-" THEN 0 - DigitsVal(Unsigned(t)) ELSE DigitsVal(Unsigned(t))

(***************************************************************************)
(* Minute keys.  The code packs YYYYMMDDHHMM into one integer, which is    *)
(* past 32 bits; here the same number is held as two limbs <<hi, lo>>,     *)
(* value hi * 10^6 + lo with 0 <= lo < 10^6, so that equal numbers are     *)
(* equal pairs and the number is negative exactly when hi is.              *)
(***************************************************************************)
NoKey == <<0, 0>>

Pack(y, mo, d, hh, mm) ==
    LET hi == y * 100 + mo
        lo == (d * 100 + hh) * 100 + mm
    IN  IF lo < 0 THEN <<hi - 1, lo + 1000000>> ELSE <<hi, lo>>

KeyNegative(k) == k[1] < 0

KeyLess(a, b) == a[1] < b[1] \/ (a[1] = b[1] /\ a[2] < b[2])

\* parse_ts_compact(line): [ok |-> FALSE] stands for (None, None); sec_key
\* is the minute key with the seconds beside it.
parse_ts_compact(line) ==
    IF Len(line) < 19 THEN [ok |-> FALSE]
    ELSE LET s == Slice(line, 0, 19)
             f == <<Slice(s, 0, 4), Slice(s, 5, 7), Slice(s, 8, 10),
                    Slice(s, 11, 13), Slice(s, 14, 16), Slice(s, 17, 19)>>
         IN  IF ~(/\ s[5] = "-" /\ s[8] = "-"
                  /\ (s[11] = " " \/ s[11] = "T")
                  /\ s[14] = ":" /\ s[17] = ":")
             THEN [ok |-> FALSE]
             ELSE IF \E k \in 1..6 : ~IntOk(f[k])
             THEN [ok |-> FALSE]
             ELSE LET mk == Pack(IntVal(f[1]), IntVal(f[2]), IntVal(f[3]),
                                 IntVal(f[4]), IntVal(f[5]))
                  IN  [ok |-> TRUE, minute_key |-> mk,
                       sec_key |-> <<mk, IntVal(f[6])>>]

\* detect_level(line): the canonical level word, or <<>> for ""
LevelLimit == 200

detect_level(line) ==
    LET upper == Upper(Slice(line, 0, LevelLimit))
        fast == {k \in 1..Len(LEVEL_WORDS) :
                    Contains(upper, <<" ">> \o LEVEL_WORDS[k] \o <<" ">>)}
        slow == {k \in 1..Len(LEVEL_WORDS) :
                    \/ Contains(upper, <<"[">> \o LEVEL_WORDS[k] \o <<"]">>)
                    \/ Contains(upper, <<"(">> \o LEVEL_WORDS[k] \o <<")">>)
                    \/ Contains(upper, LEVEL_WORDS[k] \o <<":">>)}
        first(S) == CHOOSE k \in S : \A j \in S : k <= j
    IN  IF fast # {} THEN LEVEL_CANON(LEVEL_WORDS[first(fast)])
        ELSE IF slow # {} THEN LEVEL_CANON(LEVEL_WORDS[first(slow)])
        ELSE <<>>

(***************************************************************************)
(* LogIndex and IndexWorker (src/indexing.py).                             *)
(***************************************************************************)
LogIndex(offsets, minute_keys, level_ints, total_lines, file_size) ==
    [offsets |-> offsets, minute_keys |-> minute_keys, level_ints |-> level_ints,
     total_lines |-> total_lines, file_size |-> file_size]

\* LogIndex.empty()
EmptyIndex == LogIndex(<<>>, <<>>, <<>>, 0, 0)

DefaultChunk == 8388608

PrefixLen == 256

\* IndexWorker(path, chunk_size): the object before its thread runs
NewIndexWorker(path, chunk_size) ==
    [path |-> path, chunk_size |-> chunk_size, cancel |-> FALSE, pc |-> "start",
     size |-> 0, offsets |-> <<>>, minute_keys |-> <<>>, level_ints |-> <<>>,
     buf |-> <<>>, pos |-> 0]

\* Faulty variant: slot 0 is counted as a line
TotalLinesCountsSlotZero(offsets) == Len(offsets)

\* total_lines = max(0, len(offsets) - 1)
TotalLines(offsets) == Max(0, Len(offsets) - 1)

\* Faulty variant: the metadata appended with a line start is detected in
\* the line that starts there, not in the line that ends there
RECURSIVE ScanLinesOwnRow(_, _, _, _)
ScanLinesOwnRow(buf, start, pos, acc) ==
    LET nl == Find(buf, start)
    IN  IF nl = -1 THEN [acc EXCEPT !.start = start]
        ELSE LET nx == Find(buf, nl + 1)
                 end == IF nx = -1 THEN Len(buf) ELSE nx
                 line_prefix == Decode(Slice(buf, nl + 1, Min(nl + 1 + PrefixLen, end)))
                 ts == parse_ts_compact(line_prefix)
                 mk == IF ts.ok THEN ts.minute_key ELSE NoKey
                 lvl == detect_level(line_prefix)
                 li == IF lvl # <<>> THEN LEVEL_TO_INT(lvl) ELSE NoLevel
             IN  IF KeyNegative(mk)
                 THEN [acc EXCEPT !.fault = TRUE,
                                  !.offsets = Append(@, pos + nl + 1)]
                 ELSE ScanLinesOwnRow(buf, nl + 1, pos,
                         [acc EXCEPT !.offsets = Append(@, pos + nl + 1),
                                     !.minute_keys = Append(@, mk),
                                     !.level_ints = Append(@, li)])

\* The inner loop of run (lines 106-129) on buffer buf from index start: the
\* three arrays after it, the index where the remainder starts, and fault
\* when array("Q").append was given a negative minute key (OverflowError).
RECURSIVE ScanLines(_, _, _, _)
ScanLines(buf, start, pos, acc) ==
    LET nl == Find(buf, start)
    IN  IF nl = -1 THEN [acc EXCEPT !.start = start]
        ELSE LET line_prefix == Decode(Slice(buf, start, Min(start + PrefixLen, nl)))
                 ts == parse_ts_compact(line_prefix)
                 mk == IF ts.ok THEN ts.minute_key ELSE NoKey
                 lvl == detect_level(line_prefix)
                 li == IF lvl # <<>> THEN LEVEL_TO_INT(lvl) ELSE NoLevel
             IN  IF KeyNegative(mk)
                 THEN [acc EXCEPT !.fault = TRUE,
                                  !.offsets = Append(@, pos + nl + 1)]
                 ELSE ScanLines(buf, nl + 1, pos,
                         [acc EXCEPT !.offsets = Append(@, pos + nl + 1),
                                     !.minute_keys = Append(@, mk),
                                     !.level_ints = Append(@, li)])

\* A signal queued for the main thread
Signal(sig, kind, from, payload) ==
    [sig |-> sig, kind |-> kind, from |-> from, payload |-> payload]

\* Faulty variant: level_ints does not get its slot 0
IndexBeginNoLevelSlot(me, bytes) ==
    [me EXCEPT !.pc = "loop", !.size = Len(bytes), !.offsets = <<0>>,
               !.minute_keys = <<NoKey>>, !.level_ints = <<>>]

\* run, lines 80-94, on worker object me: the file is sized and opened and
\* the arrays get slot 0
IndexBegin(me, bytes) ==
    [me EXCEPT !.pc = "loop", !.size = Len(bytes), !.offsets = <<0>>,
               !.minute_keys = <<NoKey>>, !.level_ints = <<NoLevel>>]

\* run, one turn of the outer loop (lines 95-140) and, when the read comes
\* back empty, the end of run (lines 142-146): the worker object after it
IndexTurn(me, bytes) ==
    LET data == Slice(bytes, me.pos, me.pos + me.chunk_size)
        buf == me.buf \o data
        scan == ScanLines(buf, 0, me.pos,
                          [offsets |-> me.offsets, minute_keys |-> me.minute_keys,
                           level_ints |-> me.level_ints, start |-> 0,
                           fault |-> FALSE])
    IN  IF me.cancel THEN [me EXCEPT !.pc = "cancelled"]
        ELSE IF data = <<>> THEN [me EXCEPT !.pc = "done"]
        ELSE IF scan.fault THEN [me EXCEPT !.pc = "failed"]
        ELSE [me EXCEPT !.offsets = scan.offsets,
                        !.minute_keys = scan.minute_keys,
                        !.level_ints = scan.level_ints,
                        !.buf = SliceFrom(buf, scan.start),
                        !.pos = @ + Len(data)]

\* Faulty variant: a cancelled run hands over what it has built
IndexResultKeepsPartial(me) ==
    LogIndex(me.offsets, me.minute_keys, me.level_ints,
             TotalLines(me.offsets), me.size)

\* The LogIndex a run hands to finished.emit: the empty one on cancellation
\* (line 98), the built one at the end (lines 142-146)
IndexResult(me) ==
    IF me.pc = "cancelled" THEN EmptyIndex
    ELSE LogIndex(me.offsets, me.minute_keys, me.level_ints,
                  TotalLines(me.offsets), me.size)

\* What a turn emits, if it ends the run
IndexSignals(me, w) ==
    IF me.pc \in {"cancelled", "done"}
    THEN <<Signal("finished", "index", w, IndexResult(me))>>
    ELSE IF me.pc = "failed" THEN <<Signal("failed", "index", w, <<>>)>>
    ELSE <<>>

\* run as a whole, never cancelled: the worker object when it has ended
RECURSIVE IndexRun(_, _)
IndexRun(me, bytes) ==
    IF me.pc = "start" THEN IndexRun(IndexBegin(me, bytes), bytes)
    ELSE IF me.pc = "loop" THEN IndexRun(IndexTurn(me, bytes), bytes)
    ELSE me

\* The first step of an index worker's thread
IndexStart(w) ==
    /\ w \in 1..Len(iws)
    /\ iws[w].pc = "start"
    /\ iws' = [iws EXCEPT ![w] = IndexBegin(@, disk[@.path])]
    /\ UNCHANGED <<export_thread, ews, dialogs, reader, disk, mf, idx, view_rows,
                   active_time_bucket, bins, ui_enabled,
                   index_thread, filter_thread, cluster_thread, fws, cws,
                   cluster_table, queue, view_from>>

\* A later step of an index worker's thread: one turn of the loop, the
\* cancel flag polled at its top
IndexChunk(w) ==
    /\ w \in 1..Len(iws)
    /\ iws[w].pc = "loop"
    /\ iws' = [iws EXCEPT ![w] = IndexTurn(@, disk[@.path])]
    /\ queue' = queue \o IndexSignals(iws'[w], w)
    /\ UNCHANGED <<export_thread, ews, dialogs, reader, disk, mf, idx, view_rows,
                   active_time_bucket, bins, ui_enabled,
                   index_thread, filter_thread, cluster_thread, fws, cws,
                   cluster_table, view_from>>

\* IndexWorker.cancel()
IndexCancel(w) ==
    /\ w \in 1..Len(iws)
    /\ iws[w].pc \in {"start", "loop"}
    /\ ~iws[w].cancel
    /\ iws' = [iws EXCEPT ![w].cancel = TRUE]
    /\ UNCHANGED <<export_thread, ews, dialogs, reader, disk, mf, idx, view_rows,
                   active_time_bucket, bins, ui_enabled,
                   index_thread, filter_thread, cluster_thread, fws, cws,
                   cluster_table, queue, view_from>>

(***************************************************************************)
(* MappedLogFile (src/filelog.py).  mapped says whether _mm is set; mm is  *)
(* the mapped bytes.                                                       *)
(***************************************************************************)
ClosedFile ==
    [path |-> <<>>, size |-> 0, fh |-> FALSE, mapped |-> FALSE, mm |-> <<>>,
     handles |-> 0, maps |-> 0]

\* What open() finds at a path where there is no file
NoFile == <<"ENOENT">>

\* Faulty variant: close() releases nothing and forgets nothing
close_nothing(m) == m

\* MappedLogFile.close(); handles and maps count the file handles and the
\* mappings the object has created and not released
close(m) ==
    [path |-> <<>>, size |-> 0, fh |-> FALSE, mapped |-> FALSE, mm |-> <<>>,
     handles |-> IF m.fh THEN m.handles - 1 ELSE m.handles,
     maps |-> IF m.mapped THEN m.maps - 1 ELSE m.maps]

\* MappedLogFile.open(path), its first two lines: close(), then the path
open_close(m, path) == [close(m) EXCEPT !.path = path]

\* MappedLogFile.open(path), the rest: os.path.getsize raises when there is
\* no file, and mmap.mmap refuses an empty file, after the handle is set
open_map(m, bytes) ==
    IF bytes = NoFile THEN m
    ELSE [m EXCEPT !.size = Len(bytes),
                   !.fh = TRUE,
                   !.handles = m.handles + 1,
                   !.mapped = bytes # <<>>,
                   !.mm = bytes,
                   !.maps = IF bytes # <<>> THEN m.maps + 1 ELSE m.maps]

\* MappedLogFile.open(path), run to its end on an accessor m
open(m, path, bytes) == open_map(open_close(m, path), bytes)

\* MappedLogFile.open(path) on a new MappedLogFile
MappedOpen(path, bytes) == open(ClosedFile, path, bytes)

\* open(path) raised: the handle is set and there is no mapping (mmap.mmap,
\* line 18, raises after lines 13-16 have run)
OpenFailed(m) == m.fh /\ ~m.mapped

ReadLimit == 1048576

\* Faulty variant: max_bytes is not looked at
ReadEndUnbounded(m, offset, max_bytes) ==
    LET found == Find(m.mm, offset)
    IN  IF found = -1 THEN m.size ELSE found

\* readline_at, the end of the bytes it takes
ReadEnd(m, offset, max_bytes) ==
    LET found == Find(m.mm, offset)
        end == IF found = -1 THEN m.size ELSE found
    IN  IF end - offset > max_bytes THEN offset + max_bytes ELSE end

\* readline_at, the bytes it takes and the text it returns
ReadText(m, offset, end) ==
    LET b == PySlice(m.mm, offset, end)
    IN  IF b # <<>> /\ b[Len(b)] = "\r"
        THEN Decode(SubSeq(b, 1, Len(b) - 1))
        ELSE Decode(b)

\* MappedLogFile.readline_at(offset, max_bytes), undisturbed
readline_at(m, offset, max_bytes) ==
    IF ~m.mapped THEN <<>>
    ELSE ReadText(m, offset, ReadEnd(m, offset, max_bytes))

\* No thread is inside readline_at
NoRead ==
    [pc |-> "idle", offset |-> 0, max_bytes |-> 0, end |-> 0,
     result |-> <<>>, raced |-> FALSE]

\* A thread calls readline_at(offset, max_bytes) and passes the test of _mm
ReadCall(offset, max_bytes) ==
    /\ reader.pc = "idle"
    /\ reader' = IF ~mf.mapped
                 THEN [NoRead EXCEPT !.pc = "done", !.offset = offset,
                                     !.max_bytes = max_bytes]
                 ELSE [NoRead EXCEPT !.pc = "checked", !.offset = offset,
                                     !.max_bytes = max_bytes]
    /\ UNCHANGED <<export_thread, ews, dialogs, disk, mf, idx, view_rows,
                   active_time_bucket, bins, ui_enabled, index_thread,
                   filter_thread, cluster_thread, iws, fws, cws, cluster_table,
                   queue, view_from>>

\* The thread computes end: _mm.find and self.size; None has no find
ReadFind ==
    /\ reader.pc = "checked"
    /\ reader' = IF ~mf.mapped
                 THEN [reader EXCEPT !.pc = "raised"]
                 ELSE [reader EXCEPT !.pc = "found",
                                     !.end = ReadEnd(mf, reader.offset,
                                                     reader.max_bytes)]
    /\ UNCHANGED <<export_thread, ews, dialogs, disk, mf, idx, view_rows,
                   active_time_bucket, bins, ui_enabled, index_thread,
                   filter_thread, cluster_thread, iws, fws, cws, cluster_table,
                   queue, view_from>>

\* The thread slices _mm, trims and decodes; None cannot be sliced
ReadSlice ==
    /\ reader.pc = "found"
    /\ reader' = IF ~mf.mapped
                 THEN [reader EXCEPT !.pc = "raised"]
                 ELSE [reader EXCEPT !.pc = "done",
                                     !.result = ReadText(mf, reader.offset,
                                                         reader.end)]
    /\ UNCHANGED <<export_thread, ews, dialogs, disk, mf, idx, view_rows,
                   active_time_bucket, bins, ui_enabled, index_thread,
                   filter_thread, cluster_thread, iws, fws, cws, cluster_table,
                   queue, view_from>>

\* The call is over and its outcome taken
ReadReturn ==
    /\ reader.pc \in {"done", "raised"}
    /\ reader' = NoRead
    /\ UNCHANGED <<export_thread, ews, dialogs, disk, mf, idx, view_rows,
                   active_time_bucket, bins, ui_enabled, index_thread,
                   filter_thread, cluster_thread, iws, fws, cws, cluster_table,
                   queue, view_from>>

\* reader after a step of another thread on the accessor: a call that has
\* begun has been disturbed (raced is history)
Disturbed(r) == IF r.pc # "idle" THEN [r EXCEPT !.raced = TRUE] ELSE r

\* Another thread runs the first two lines of open(path)
OpenClose(path) ==
    /\ mf' = open_close(mf, path)
    /\ reader' = Disturbed(reader)
    /\ UNCHANGED <<export_thread, ews, dialogs, disk, idx, view_rows,
                   active_time_bucket, bins, ui_enabled, index_thread,
                   filter_thread, cluster_thread, iws, fws, cws, cluster_table,
                   queue, view_from>>

\* and the rest of open(path)
OpenMap ==
    /\ mf.path # <<>> /\ ~mf.fh
    /\ mf' = open_map(mf, IF mf.path \in DOMAIN disk THEN disk[mf.path]
                          ELSE NoFile)
    /\ reader' = Disturbed(reader)
    /\ UNCHANGED <<export_thread, ews, dialogs, disk, idx, view_rows,
                   active_time_bucket, bins, ui_enabled, index_thread,
                   filter_thread, cluster_thread, iws, fws, cws, cluster_table,
                   queue, view_from>>

\* Another thread runs close()
Close ==
    /\ mf' = close(mf)
    /\ reader' = Disturbed(reader)
    /\ UNCHANGED <<export_thread, ews, dialogs, disk, idx, view_rows,
                   active_time_bucket, bins, ui_enabled, index_thread,
                   filter_thread, cluster_thread, iws, fws, cws, cluster_table,
                   queue, view_from>>

SniffLen == 8192

\* A path is a text; the paths that are symbolic links
LinkPath == <<"l", ".", "l", "o", "g">>
Symlinks == {LinkPath}

\* os.path.isfile(path): disk holds the regular files, a symbolic link to
\* one among them, for os.path.isfile follows links
isfile(path) == path \in DOMAIN disk

\* os.path.islink(path)
islink(path) == path \in Symlinks

\* str.lower(), one character at a time
LowerChar(c) ==
    IF \E k \in 1..26 : UpperCase[k] = c
    THEN LowerCase[CHOOSE k \in 1..26 : UpperCase[k] = c]
    ELSE c

Lower(s) == [i \in 1..Len(s) |-> LowerChar(s[i])]

\* s.endswith(t)
EndsWith(s, t) == Len(s) >= Len(t) /\ SubSeq(s, Len(s) - Len(t) + 1, Len(s)) = t

\* Faulty variant: the first 8 KB are not looked at
is_valid_log_file_by_name(path) ==
    /\ path # <<>>
    /\ isfile(path)
    /\ EndsWith(Lower(path), <<".", "l", "o", "g">>)
    /\ ~islink(path)

\* is_valid_log_file(path)
is_valid_log_file(path) ==
    /\ path # <<>>
    /\ isfile(path)
    /\ EndsWith(Lower(path), <<".", "l", "o", "g">>)
    /\ ~islink(path)
    /\ \A i \in 1..Min(SniffLen, Len(disk[path])) : disk[path][i] # "x00"

(***************************************************************************)
(* FilterWorker (src/filtering.py).  A regular expression is a literal     *)
(* text of letters, digits and spaces, which re.compile accepts and        *)
(* rx.search finds as a substring; a text holding an unclosed "(" is       *)
(* refused by re.compile.  reads is history: the rows whose text the run    *)
(* has read through the accessor.                                          *)
(***************************************************************************)
ReCompiles(text) == \A i \in 1..Len(text) : text[i] # "("

ReSearch(text, line) == Contains(line, text)

\* Faulty variant: the use_regex checkbox is not looked at
RegexActiveIgnoresCheckbox(fw) == Strip(fw.regex_text) # <<>>

\* rx is not None: use_regex and regex_text.strip()
RegexActive(fw) == fw.use_regex /\ Strip(fw.regex_text) # <<>>

NewFilterWorker(index, regex_text, use_regex, level_mask, time_bucket_minute) ==
    [idx |-> index, regex_text |-> regex_text, use_regex |-> use_regex,
     level_mask |-> level_mask, time_bucket_minute |-> time_bucket_minute,
     cancel |-> FALSE, pc |-> "start", i |-> 0, out |-> <<>>, reads |-> <<>>]

\* Faulty variant: a row of unknown level is skipped like any level that is
\* not in the whitelist
LevelSkipsUnknown(fw, i) ==
    LET lvl_int == IF i < Len(fw.idx.level_ints) THEN fw.idx.level_ints[i + 1]
                   ELSE NoLevel
    IN  /\ fw.level_mask # {}
        /\ INT_TO_LEVEL(lvl_int) \notin fw.level_mask

\* The level test of run (lines 85-87): TRUE when the row is skipped
LevelSkips(fw, i) ==
    LET lvl_int == IF i < Len(fw.idx.level_ints) THEN fw.idx.level_ints[i + 1]
                   ELSE NoLevel
    IN  /\ fw.level_mask # {}
        /\ lvl_int # NoLevel
        /\ INT_TO_LEVEL(lvl_int) \notin fw.level_mask

\* The time bucket test of run (lines 93-96): TRUE when the row is skipped
BucketSkips(fw, i) ==
    LET mk == IF i < Len(fw.idx.minute_keys) THEN fw.idx.minute_keys[i + 1]
              ELSE NoKey
    IN  /\ fw.time_bucket_minute # NoBucket
        /\ mk # fw.time_bucket_minute

\* The regex test of run (lines 99-103): TRUE when the row is skipped
RegexSkips(fw, i, m) ==
    /\ RegexActive(fw)
    /\ ~ReSearch(fw.regex_text, readline_at(m, fw.idx.offsets[i + 1], ReadLimit))

\* Faulty variant: the line is read before the level and the bucket are
\* looked at
FilterReadsFirst(fw, i) == RegexActive(fw)

\* One turn of the row loop reaches readline_at (line 101): the regex is
\* active and neither the level test nor the time bucket test said continue
FilterReads(fw, i) == RegexActive(fw) /\ ~LevelSkips(fw, i) /\ ~BucketSkips(fw, i)

\* One turn of the row loop appends i unless a test skips it
FilterKeeps(fw, i, m) ==
    ~LevelSkips(fw, i) /\ ~BucketSkips(fw, i) /\ ~RegexSkips(fw, i, m)

\* Faulty variant: the row is put at the front of out
OutAfterPrepends(out, i, keep) == IF keep THEN <<i>> \o out ELSE out

\* out after row i
OutAfter(out, i, keep) == IF keep THEN Append(out, i) ELSE out

\* run, lines 63-75, on worker object me: the pattern is compiled, and a
\* malformed one ends the run
FilterBegin(me) ==
    IF RegexActive(me) /\ ~ReCompiles(me.regex_text)
    THEN [me EXCEPT !.pc = "failed"]
    ELSE [me EXCEPT !.pc = "loop"]

\* Faulty variant: the cancel flag is polled after the row was appended
FilterTurnAppendsThenPolls(me, m) ==
    IF me.i >= me.idx.total_lines THEN [me EXCEPT !.pc = "done"]
    ELSE IF me.cancel THEN [me EXCEPT !.pc = "cancelled", !.out = Append(@, me.i)]
    ELSE [me EXCEPT !.out = IF FilterKeeps(me, me.i, m) THEN Append(@, me.i) ELSE @,
                    !.i = @ + 1]

\* run, one turn of the row loop (lines 78-112) or, after the last row, the
\* end of run (lines 114-116): the worker object after it
FilterTurn(me, m) ==
    IF me.i >= me.idx.total_lines THEN [me EXCEPT !.pc = "done"]
    ELSE IF me.cancel THEN [me EXCEPT !.pc = "cancelled"]
    ELSE [me EXCEPT !.out = OutAfter(@, me.i, FilterKeeps(me, me.i, m)),
                    !.reads = IF FilterReads(me, me.i) THEN Append(@, me.i) ELSE @,
                    !.i = @ + 1]

\* What a step emits, if it ends the run: finished.emit(out) on
\* cancellation (line 81) and at the end (line 116) alike
FilterSignals(me, w) ==
    IF me.pc \in {"cancelled", "done"}
    THEN <<Signal("finished", "filter", w, me.out)>>
    ELSE IF me.pc = "failed" THEN <<Signal("failed", "filter", w, <<>>)>>
    ELSE <<>>

\* run as a whole on mapped file m, never cancelled: the worker object when
\* it has ended
RECURSIVE FilterRun(_, _)
FilterRun(me, m) ==
    IF me.pc = "start" THEN FilterRun(FilterBegin(me), m)
    ELSE IF me.pc = "loop" THEN FilterRun(FilterTurn(me, m), m)
    ELSE me

\* The first step of a filter worker's thread
FilterStart(w) ==
    /\ w \in 1..Len(fws)
    /\ fws[w].pc = "start"
    /\ fws' = [fws EXCEPT ![w] = FilterBegin(@)]
    /\ queue' = queue \o FilterSignals(fws'[w], w)
    /\ UNCHANGED <<export_thread, ews, dialogs, reader, disk, mf, idx, view_rows,
                   active_time_bucket, bins, ui_enabled,
                   index_thread, filter_thread, cluster_thread, iws, cws,
                   cluster_table, view_from>>

\* A later step of a filter worker's thread: one turn of the loop, the
\* cancel flag polled at its top
FilterRow(w) ==
    /\ w \in 1..Len(fws)
    /\ fws[w].pc = "loop"
    /\ fws' = [fws EXCEPT ![w] = FilterTurn(@, mf)]
    /\ queue' = queue \o FilterSignals(fws'[w], w)
    /\ UNCHANGED <<export_thread, ews, dialogs, reader, disk, mf, idx, view_rows,
                   active_time_bucket, bins, ui_enabled,
                   index_thread, filter_thread, cluster_thread, iws, cws,
                   cluster_table, view_from>>

\* FilterWorker.cancel()
FilterCancel(w) ==
    /\ w \in 1..Len(fws)
    /\ fws[w].pc \in {"start", "loop"}
    /\ ~fws[w].cancel
    /\ fws' = [fws EXCEPT ![w].cancel = TRUE]
    /\ UNCHANGED <<export_thread, ews, dialogs, reader, disk, mf, idx, view_rows,
                   active_time_bucket, bins, ui_enabled,
                   index_thread, filter_thread, cluster_thread, iws, cws,
                   cluster_table, queue, view_from>>

(***************************************************************************)
(* normalize_message_for_cluster (src/filtering.py).  Each pattern is an   *)
(* operator that gives, for a text s and a place i in it, the place just   *)
(* after the match the pattern has at i, or 0 when it has none there;      *)
(* re.sub takes the matches from left to right, none overlapping another.  *)
(* The character U+2026 is written "u2026".                                *)
(***************************************************************************)
IsLetter(c) == \E k \in 1..26 : LowerCase[k] = c \/ UpperCase[k] = c

\* \w, on the characters at hand
IsWord(c) == IsLetter(c) \/ IsDigit(c) \/ c = "_"

\* [0-9a-fA-F]
IsHexDigit(c) ==
    IsDigit(c) \/ c \in {"a","b","c","d","e","f","A","B","C","D","E","F"}

\* [\w\.-]
IsMailChar(c) == IsWord(c) \/ c \in {".", "-"}

\* [\w\-/\\\.]
IsPathChar(c) == IsWord(c) \/ c \in {"-", "/", "\\", "."}

WordAt(s, i) == i >= 1 /\ i <= Len(s) /\ IsWord(s[i])

\* \b just before place i
Boundary(s, i) == WordAt(s, i - 1) # WordAt(s, i)

\* A character is of a class of the patterns: \d, [0-9a-fA-F], \w, [\w\.-],
\* [\w\-/\\\.] or \s
InClass(class, c) ==
    IF class = "digit" THEN IsDigit(c)
    ELSE IF class = "hex" THEN IsHexDigit(c)
    ELSE IF class = "word" THEN IsWord(c)
    ELSE IF class = "mail" THEN IsMailChar(c)
    ELSE IF class = "path" THEN IsPathChar(c)
    ELSE IsSpace(c)

\* The place after the longest run, from place i on, of characters of a class
RunEnd(s, i, class) ==
    LET stops == {j \in i..Len(s) : ~InClass(class, s[j])}
    IN  IF stops = {} THEN Max(i, Len(s) + 1)
        ELSE CHOOSE j \in stops : \A k \in stops : j <= k

\* (['"]).*?\1
RE_QUOTED(s, i) ==
    LET ends == {j \in (i + 1)..Len(s) : s[j] = s[i]}
        j0 == CHOOSE j \in ends : \A k \in ends : j <= k
    IN  IF s[i] \notin {"'", "\""} \/ ends = {} THEN 0
        ELSE IF \E k \in (i + 1)..(j0 - 1) : s[k] = "\n" THEN 0
        ELSE j0 + 1

\* \b[0-9a-fA-F]{8}-[0-9a-fA-F]{4}-[0-9a-fA-F]{4}-[0-9a-fA-F]{4}-[0-9a-fA-F]{12}\b
RE_GUID(s, i) ==
    IF /\ Boundary(s, i)
       /\ i + 35 <= Len(s)
       /\ \A k \in 0..35 : IF k \in {8, 13, 18, 23} THEN s[i + k] = "-"
                           ELSE IsHexDigit(s[i + k])
       /\ Boundary(s, i + 36)
    THEN i + 36 ELSE 0

\* \b0x[0-9a-fA-F]+\b
RE_HEX(s, i) ==
    LET e == RunEnd(s, i + 2, "hex")
    IN  IF /\ Boundary(s, i)
           /\ s[i] = "0" /\ i + 1 <= Len(s) /\ s[i + 1] = "x"
           /\ e > i + 2
           /\ Boundary(s, e)
        THEN e ELSE 0

\* \b\d{1,3}(?:\.\d{1,3}){3}\b
RE_IP(s, i) ==
    LET group(j) == LET e == RunEnd(s, j, "digit")
                    IN  IF e - j \in 1..3 THEN e ELSE 0
        dot(e) == e # 0 /\ e <= Len(s) /\ s[e] = "."
        a == group(i)
        b == IF dot(a) THEN group(a + 1) ELSE 0
        c == IF dot(b) THEN group(b + 1) ELSE 0
        d == IF dot(c) THEN group(c + 1) ELSE 0
    IN  IF Boundary(s, i) /\ d # 0 /\ Boundary(s, d) THEN d ELSE 0

\* \b[\w\.-]+@[\w\.-]+\.\w+\b
RE_EMAIL(s, i) ==
    LET a == RunEnd(s, i, "mail")
        r1 == RunEnd(s, a + 1, "mail")
        dots == {d \in (a + 2)..(r1 - 1) : s[d] = "." /\ WordAt(s, d + 1)}
        last == CHOOSE d \in dots : \A k \in dots : d >= k
    IN  IF /\ Boundary(s, i)
           /\ a > i /\ a <= Len(s) /\ s[a] = "@"
           /\ dots # {}
        THEN RunEnd(s, last + 1, "word") ELSE 0

\* ([A-Za-z]:\\|/)[\w\-/\\\.]+
RE_PATH(s, i) ==
    LET j == IF s[i] = "/" THEN i + 1
             ELSE IF /\ IsLetter(s[i]) /\ i + 2 <= Len(s)
                     /\ s[i + 1] = ":" /\ s[i + 2] = "\\" THEN i + 3
             ELSE 0
        e == RunEnd(s, j, "path")
    IN  IF j # 0 /\ e > j THEN e ELSE 0

\* \b\d+\b
RE_NUM(s, i) ==
    LET e == RunEnd(s, i, "digit")
    IN  IF Boundary(s, i) /\ IsDigit(s[i]) /\ Boundary(s, e) THEN e ELSE 0

\* \[[^\]]*\]|\([^\)]*\)|\{[^\}]*\}
RE_BRACKETS(s, i) ==
    LET closer == IF s[i] = "[" THEN "]" ELSE IF s[i] = "(" THEN ")" ELSE "}"
        ends == {j \in (i + 1)..Len(s) : s[j] = closer}
    IN  IF s[i] \notin {"[", "(", "{"} \/ ends = {} THEN 0
        ELSE (CHOOSE j \in ends : \A k \in ends : j <= k) + 1

\* \s+
RE_MULTI_WS(s, i) == IF IsSpace(s[i]) THEN RunEnd(s, i, "space") ELSE 0

\* pattern.sub(repl, s) from place i on, ends[k] being what the pattern gives
\* at place k: the text up to the next match, repl for the match, and on
\* from the place after it
RECURSIVE SubFrom(_, _, _, _)
SubFrom(s, ends, repl, i) ==
    LET hits == {k \in i..Len(s) : ends[k] # 0}
        k0 == CHOOSE k \in hits : \A h \in hits : k <= h
    IN  IF hits = {} THEN SubSeq(s, i, Len(s))
        ELSE SubSeq(s, i, k0 - 1) \o repl \o SubFrom(s, ends, repl, ends[k0])

KeyLimit == 180

\* RE_QUOTED.sub("<str>", s), line 28
sub_QUOTED(s) ==
    SubFrom(s, [i \in 1..Len(s) |-> RE_QUOTED(s, i)], <<"<","s","t","r",">">>, 1)

\* RE_GUID.sub("<guid>", s), line 29
sub_GUID(s) ==
    SubFrom(s, [i \in 1..Len(s) |-> RE_GUID(s, i)], <<"<","g","u","i","d",">">>, 1)

\* RE_HEX.sub("<hex>", s), line 30
sub_HEX(s) ==
    SubFrom(s, [i \in 1..Len(s) |-> RE_HEX(s, i)], <<"<","h","e","x",">">>, 1)

\* RE_IP.sub("<ip>", s), line 31
sub_IP(s) ==
    SubFrom(s, [i \in 1..Len(s) |-> RE_IP(s, i)], <<"<","i","p",">">>, 1)

\* RE_EMAIL.sub("<email>", s), line 32
sub_EMAIL(s) ==
    SubFrom(s, [i \in 1..Len(s) |-> RE_EMAIL(s, i)], <<"<","e","m","a","i","l",">">>, 1)

\* RE_PATH.sub("<path>", s), line 33
sub_PATH(s) ==
    SubFrom(s, [i \in 1..Len(s) |-> RE_PATH(s, i)], <<"<","p","a","t","h",">">>, 1)

\* RE_NUM.sub("<num>", s), line 34
sub_NUM(s) ==
    SubFrom(s, [i \in 1..Len(s) |-> RE_NUM(s, i)], <<"<","n","u","m",">">>, 1)

\* Faulty variant: the bracket blobs are left in the text
sub_BRACKETS_kept(s) == s

\* RE_BRACKETS.sub(" ", s), line 35
sub_BRACKETS(s) ==
    SubFrom(s, [i \in 1..Len(s) |-> RE_BRACKETS(s, i)], <<" ">>, 1)

\* RE_MULTI_WS.sub(" ", s).strip(), line 36
sub_MULTI_WS(s) ==
    Strip(SubFrom(s, [i \in 1..Len(s) |-> RE_MULTI_WS(s, i)], <<" ">>, 1))

\* Lines 38-39: a key of more than 180 characters is cut and marked
Shortened(s) ==
    IF Len(s) > KeyLimit THEN Slice(s, 0, KeyLimit) \o <<"u2026">> ELSE s

\* normalize_message_for_cluster(msg)
normalize_message_for_cluster(msg) ==
    Shortened(sub_MULTI_WS(sub_BRACKETS(sub_NUM(sub_PATH(sub_EMAIL(sub_IP(
        sub_HEX(sub_GUID(sub_QUOTED(Strip(msg)))))))))))

(***************************************************************************)
(* ClusterWorker (src/filtering.py).  counts is the Counter, its entries   *)
(* in the order the keys were first counted; sample is the dict of first   *)
(* lines, in the same order.                                               *)
(***************************************************************************)
MaxClusters == 60

PeekLimit == 4096

LineLimit == 65536

SampleLimit == 5000

TsLen == 19

MinCutLen == 32

DefaultMaxClusters == 50

NewClusterWorker(index, view_rows0, only_errors, max_clusters) ==
    [idx |-> index, view_rows |-> view_rows0, only_errors |-> only_errors,
     max_clusters |-> max_clusters, cancel |-> FALSE, pc |-> "start",
     j |-> 0, counts |-> <<>>, sample |-> <<>>]

\* s.lstrip(chars)
LStrip(s, chars) ==
    LET keep == {i \in 1..Len(s) : s[i] \notin chars}
    IN  IF keep = {} THEN <<>>
        ELSE SubSeq(s, CHOOSE i \in keep : \A k \in keep : i <= k, Len(s))

\* The level recorded for a row is ERROR, FATAL or CRITICAL (lines 154-160)
LevelIsError(cw, row) ==
    LET lvl_int == IF row < Len(cw.idx.level_ints) THEN cw.idx.level_ints[row + 1]
                   ELSE NoLevel
    IN  INT_TO_LEVEL(lvl_int) \in {W_ERROR, W_FATAL, W_CRITICAL}

\* The keyword test on the peeked prefix (lines 162-165)
HasErrorWord(prefix) ==
    LET up == Upper(prefix)
    IN  \/ Contains(up, <<"E","X","C","E","P","T","I","O","N">>)
        \/ Contains(up, <<"T","R","A","C","E","B","A","C","K">>)
        \/ Contains(up, <<"F","A","I","L","E","D">>)
        \/ Contains(up, <<"E","R","R","O","R">>)

\* Faulty variant: the recorded level does not keep a row, only an error word
\* does
ClusterSkipsLevelBlind(cw, row, m) ==
    /\ cw.only_errors
    /\ ~HasErrorWord(readline_at(m, cw.idx.offsets[row + 1], PeekLimit))

\* The row is passed over by the only_errors test (line 166)
ClusterSkips(cw, row, m) ==
    /\ cw.only_errors
    /\ ~LevelIsError(cw, row)
    /\ ~HasErrorWord(readline_at(m, cw.idx.offsets[row + 1], PeekLimit))

\* line, for a row that is not passed over (lines 167-171)
ClusterLine(cw, row, m) ==
    IF cw.only_errors /\ ~LevelIsError(cw, row)
    THEN readline_at(m, cw.idx.offsets[row + 1], PeekLimit)
    ELSE readline_at(m, cw.idx.offsets[row + 1], LineLimit)

\* msg: the line, cut after its timestamp if it is long enough and has one
\* (lines 175-179)
ClusterMessage(line) ==
    IF Len(line) > MinCutLen /\ parse_ts_compact(line).ok
    THEN LStrip(SliceFrom(line, TsLen), {" ", "-", "\t", "|"})
    ELSE line

\* key (line 181)
ClusterKey(line) == normalize_message_for_cluster(ClusterMessage(line))

HasKey(entries, key) == \E k \in 1..Len(entries) : entries[k].key = key

\* Faulty variant: a key counted before starts again at one
CountedRestarts(counts, key) ==
    IF HasKey(counts, key)
    THEN [k \in 1..Len(counts) |->
             IF counts[k].key = key THEN [counts[k] EXCEPT !.n = 1]
             ELSE counts[k]]
    ELSE Append(counts, [key |-> key, n |-> 1])

\* counts[key] += 1 (line 185)
Counted(counts, key) ==
    IF HasKey(counts, key)
    THEN [k \in 1..Len(counts) |->
             IF counts[k].key = key THEN [counts[k] EXCEPT !.n = @ + 1]
             ELSE counts[k]]
    ELSE Append(counts, [key |-> key, n |-> 1])

\* if key not in sample: sample[key] = line[:5000] (lines 186-187)
Sampled(sample, key, line) ==
    IF HasKey(sample, key) THEN sample
    ELSE Append(sample, [key |-> key, line |-> Slice(line, 0, SampleLimit)])

\* sample.get(k, "")
SampleGet(sample, key) ==
    IF HasKey(sample, key)
    THEN sample[CHOOSE k \in 1..Len(sample) : sample[k].key = key].line
    ELSE <<>>

\* Faulty variant: among equal counts the key counted last comes first
MostCommonLastFirst(counts, n) ==
    LET place(i) == 1 + Cardinality({k \in 1..Len(counts) :
                          \/ counts[k].n > counts[i].n
                          \/ (counts[k].n = counts[i].n /\ k > i)})
    IN  [p \in 1..Min(n, Len(counts)) |->
            counts[CHOOSE i \in 1..Len(counts) : place(i) = p]]

\* counts.most_common(n): the n entries of greatest count, greatest first,
\* equal counts in the order the keys were first counted
MostCommon(counts, n) ==
    LET place(i) == 1 + Cardinality({k \in 1..Len(counts) :
                          \/ counts[k].n > counts[i].n
                          \/ (counts[k].n = counts[i].n /\ k < i)})
    IN  [p \in 1..Min(n, Len(counts)) |->
            counts[CHOOSE i \in 1..Len(counts) : place(i) = p]]

\* run, lines 142-146
ClusterBegin(me) == [me EXCEPT !.pc = "loop", !.j = 0, !.counts = <<>>,
                               !.sample = <<>>]

\* run, one turn of the row loop (lines 148-194) or, after the last row, the
\* end of run (lines 196-200): the worker object after it
ClusterTurn(me, m) ==
    IF me.j >= Len(me.view_rows) THEN [me EXCEPT !.pc = "done"]
    ELSE IF me.cancel THEN [me EXCEPT !.pc = "cancelled"]
    ELSE LET row == me.view_rows[me.j + 1]
             line == ClusterLine(me, row, m)
             key == ClusterKey(line)
         IN  IF ClusterSkips(me, row, m) \/ key = <<>>
             THEN [me EXCEPT !.j = @ + 1]
             ELSE [me EXCEPT !.j = @ + 1,
                             !.counts = Counted(@, key),
                             !.sample = Sampled(@, key, line)]

\* Faulty variant: a cancelled run hands over what it has counted
ClusterResultKeepsPartial(me) ==
    LET top == MostCommon(me.counts, me.max_clusters)
    IN  [p \in 1..Len(top) |->
            [count |-> top[p].n, key |-> top[p].key,
             sample |-> SampleGet(me.sample, top[p].key)]]

\* The list a run hands to finished.emit: the empty one on cancellation
\* (line 151), the top entries at the end (lines 196-200)
ClusterResult(me) ==
    IF me.pc = "cancelled" THEN <<>>
    ELSE LET top == MostCommon(me.counts, me.max_clusters)
         IN  [p \in 1..Len(top) |->
                 [count |-> top[p].n, key |-> top[p].key,
                  sample |-> SampleGet(me.sample, top[p].key)]]

\* Faulty variant: the except clause emits failed and the run goes on to
\* emit finished
ClusterSignalsFailedAndFinished(me, w) ==
    IF me.pc \in {"cancelled", "done"}
    THEN <<Signal("finished", "cluster", w, ClusterResult(me))>>
    ELSE IF me.pc = "failed"
    THEN <<Signal("failed", "cluster", w, <<>>),
           Signal("finished", "cluster", w, <<>>)>>
    ELSE <<>>

\* What a step emits, if it ends the run
ClusterSignals(me, w) ==
    IF me.pc \in {"cancelled", "done"}
    THEN <<Signal("finished", "cluster", w, ClusterResult(me))>>
    ELSE IF me.pc = "failed" THEN <<Signal("failed", "cluster", w, <<>>)>>
    ELSE <<>>

\* run as a whole on mapped file m, never cancelled: the worker object when
\* it has ended
RECURSIVE ClusterRun(_, _)
ClusterRun(me, m) ==
    IF me.pc = "start" THEN ClusterRun(ClusterBegin(me), m)
    ELSE IF me.pc = "loop" THEN ClusterRun(ClusterTurn(me, m), m)
    ELSE me

\* The first step of a cluster worker's thread
ClusterStart(w) ==
    /\ w \in 1..Len(cws)
    /\ cws[w].pc = "start"
    /\ cws' = [cws EXCEPT ![w] = ClusterBegin(@)]
    /\ UNCHANGED <<export_thread, ews, dialogs, reader, disk, mf, idx, view_rows,
                   active_time_bucket, bins, ui_enabled,
                   index_thread, filter_thread, cluster_thread, iws, fws,
                   cluster_table, queue, view_from>>

\* A later step of a cluster worker's thread: one turn of the loop, the
\* cancel flag polled at its top
ClusterRow(w) ==
    /\ w \in 1..Len(cws)
    /\ cws[w].pc = "loop"
    /\ cws' = [cws EXCEPT ![w] = ClusterTurn(@, mf)]
    /\ queue' = queue \o ClusterSignals(cws'[w], w)
    /\ UNCHANGED <<export_thread, ews, dialogs, reader, disk, mf, idx, view_rows,
                   active_time_bucket, bins, ui_enabled,
                   index_thread, filter_thread, cluster_thread, iws, fws,
                   cluster_table, view_from>>

\* ClusterWorker.cancel()
ClusterCancel(w) ==
    /\ w \in 1..Len(cws)
    /\ cws[w].pc \in {"start", "loop"}
    /\ ~cws[w].cancel
    /\ cws' = [cws EXCEPT ![w].cancel = TRUE]
    /\ UNCHANGED <<export_thread, ews, dialogs, reader, disk, mf, idx, view_rows,
                   active_time_bucket, bins, ui_enabled,
                   index_thread, filter_thread, cluster_thread, iws, fws,
                   cluster_table, queue, view_from>>

(***************************************************************************)
(* LogTableModel (src/models.py): the fields the table shows for a row.    *)
(* ExportWorker._line_fields (src/export.py) computes the same.            *)
(***************************************************************************)
FieldLimit == 262144

\* _get_fields(row_id), for a row that is not in the cache: <<ts, lvl, msg>>
_get_fields(m, log_index, row_id) ==
    LET line == readline_at(m, log_index.offsets[row_id + 1], FieldLimit)
        ts == IF parse_ts_compact(line).ok THEN Slice(line, 0, TsLen) ELSE <<>>
        lvl_int == IF row_id < Len(log_index.level_ints)
                   THEN log_index.level_ints[row_id + 1] ELSE NoLevel
        msg == IF ts # <<>> THEN LStrip(SliceFrom(line, TsLen), {" ", "-", "\t", "|"})
               ELSE line
    IN  <<ts, INT_TO_LEVEL(lvl_int), msg>>

(***************************************************************************)
(* ExportWorker (src/export.py).  The three formats walk the rows alike,   *)
(* polling the cancel flag before each row and reading the row through the *)
(* accessor; out is the rows written, as <<timestamp, level, message>>.    *)
(***************************************************************************)
\* max_rows = None
NoCap == 0 - 1

PreviewLimit == 5000

NewExportWorker(fmt, index, view_rows0, max_rows) ==
    [fmt |-> fmt, idx |-> index, view_rows |-> view_rows0, max_rows |-> max_rows,
     cancel |-> FALSE, pc |-> "start", i |-> 0, rows |-> <<>>, out |-> <<>>]

\* _line_fields(row): <<ts, lvl, msg>>
_line_fields(m, index, row) ==
    LET line == readline_at(m, index.offsets[row + 1], FieldLimit)
        ts == IF parse_ts_compact(line).ok THEN Slice(line, 0, TsLen) ELSE <<>>
        lvl_int == IF row < Len(index.level_ints)
                   THEN index.level_ints[row + 1] ELSE NoLevel
        msg == IF ts # <<>> THEN LStrip(SliceFrom(line, TsLen), {" ", "-", "\t", "|"})
               ELSE line
    IN  <<ts, INT_TO_LEVEL(lvl_int), msg>>

\* run, up to the row loop: the rows are cut to max_rows, and the HTML
\* report walks the first 5000 of them
ExportBegin(me) ==
    LET rows == IF me.max_rows = NoCap THEN me.view_rows
                ELSE Slice(me.view_rows, 0, me.max_rows)
    IN  IF me.fmt \notin {"csv", "jsonl", "html"}
        THEN [me EXCEPT !.pc = "failed"]
        ELSE [me EXCEPT !.pc = "loop",
                        !.rows = IF me.fmt = "html"
                                 THEN Slice(rows, 0, Min(Len(rows), PreviewLimit))
                                 ELSE rows]

\* run, one turn of the row loop or, after the last row, the end of run
ExportTurn(me, m) ==
    IF me.i >= Len(me.rows) THEN [me EXCEPT !.pc = "done"]
    ELSE IF me.cancel THEN [me EXCEPT !.pc = "cancelled"]
    ELSE [me EXCEPT !.out = Append(@, _line_fields(m, me.idx, me.rows[me.i + 1])),
                    !.i = @ + 1]

\* What a step emits, if it ends the run
ExportSignals(me, w) ==
    IF me.pc = "cancelled"
    THEN <<Signal("finished", "export", w, <<"Export cancelled.">>)>>
    ELSE IF me.pc = "done"
    THEN <<Signal("finished", "export", w, <<"exported">>)>>
    ELSE IF me.pc = "failed" THEN <<Signal("failed", "export", w, <<>>)>>
    ELSE <<>>

\* The first step of an export worker's thread
ExportStart(w) ==
    /\ w \in 1..Len(ews)
    /\ ews[w].pc = "start"
    /\ ews' = [ews EXCEPT ![w] = ExportBegin(@)]
    /\ queue' = queue \o ExportSignals(ews'[w], w)
    /\ UNCHANGED <<export_thread, dialogs, reader, disk, mf, idx, view_rows,
                   active_time_bucket, bins, ui_enabled, index_thread,
                   filter_thread, cluster_thread, iws, fws, cws,
                   cluster_table, view_from>>

\* A later step of an export worker's thread: one turn of the loop, the
\* cancel flag polled at its top
ExportRow(w) ==
    /\ w \in 1..Len(ews)
    /\ ews[w].pc = "loop"
    /\ ews' = [ews EXCEPT ![w] = ExportTurn(@, mf)]
    /\ queue' = queue \o ExportSignals(ews'[w], w)
    /\ UNCHANGED <<export_thread, dialogs, reader, disk, mf, idx, view_rows,
                   active_time_bucket, bins, ui_enabled, index_thread,
                   filter_thread, cluster_thread, iws, fws, cws,
                   cluster_table, view_from>>

(***************************************************************************)
(* The except clause that ends each run: an exception raised anywhere in   *)
(* the try block (a read of the file that fails, the accessor raising      *)
(* under a worker's read when the main thread re-opens it, no memory) is   *)
(* caught, failed is emitted with the trace, and run returns.              *)
(***************************************************************************)
\* Faulty variant: the except clause hands over what the run has collected
FilterCaughtDeliversPartial(me) == [me EXCEPT !.pc = "cancelled"]

\* IndexWorker.run, lines 147-148
IndexCaught(me) == [me EXCEPT !.pc = "failed"]

\* FilterWorker.run, lines 117-118
FilterCaught(me) == [me EXCEPT !.pc = "failed"]

\* ClusterWorker.run, lines 201-202
ClusterCaught(me) == [me EXCEPT !.pc = "failed"]

\* The signals a step of IndexWorker.run emits, by name and in order, where
\* me is the worker object before the step and after the one after it: the
\* status of line 81 when the run starts; status and finished on
\* cancellation (lines 97-98); progress, status and finished at the end
\* (lines 143-145); failed from the except clause (line 148); and in a turn
\* that goes on, the progress and status of lines 139-140 when their time
\* has come
IndexEmits(me, after) ==
    (IF me.pc = "start" THEN <<"status">> ELSE <<>>) \o
    (IF after.pc = "cancelled" THEN <<"status", "finished">>
     ELSE IF after.pc = "done" THEN <<"progress", "status", "finished">>
     ELSE IF after.pc = "failed" THEN <<"failed">>
     ELSE IF me.pc = "loop" THEN <<"progress", "status">>
     ELSE <<>>)

\* The same of FilterWorker.run: line 63; line 70 for a regex that does not
\* compile; lines 80-81; lines 114-116; line 118; lines 110-111
FilterEmits(me, after) ==
    (IF me.pc = "start" THEN <<"status">> ELSE <<>>) \o
    (IF after.pc = "cancelled" THEN <<"status", "finished">>
     ELSE IF after.pc = "done" THEN <<"progress", "status", "finished">>
     ELSE IF after.pc = "failed" THEN <<"failed">>
     ELSE IF me.pc = "loop" THEN <<"progress", "status">>
     ELSE <<>>)

\* The same of ClusterWorker.run: line 142; lines 150-151; lines 198-200;
\* line 202; lines 192-193
ClusterEmits(me, after) ==
    (IF me.pc = "start" THEN <<"status">> ELSE <<>>) \o
    (IF after.pc = "cancelled" THEN <<"status", "finished">>
     ELSE IF after.pc = "done" THEN <<"progress", "status", "finished">>
     ELSE IF after.pc = "failed" THEN <<"failed">>
     ELSE IF me.pc = "loop" THEN <<"progress", "status">>
     ELSE <<>>)

\* An exception is raised inside an index worker's run
IndexRaise(w) ==
    /\ w \in 1..Len(iws)
    /\ iws[w].pc \in {"start", "loop"}
    /\ iws' = [iws EXCEPT ![w] = IndexCaught(@)]
    /\ queue' = queue \o IndexSignals(iws'[w], w)
    /\ UNCHANGED <<export_thread, ews, dialogs, reader, disk, mf, idx,
                   view_rows, active_time_bucket, bins, ui_enabled,
                   index_thread, filter_thread, cluster_thread, fws, cws,
                   cluster_table, view_from>>

\* An exception is raised inside a filter worker's run
FilterRaise(w) ==
    /\ w \in 1..Len(fws)
    /\ fws[w].pc \in {"start", "loop"}
    /\ fws' = [fws EXCEPT ![w] = FilterCaught(@)]
    /\ queue' = queue \o FilterSignals(fws'[w], w)
    /\ UNCHANGED <<export_thread, ews, dialogs, reader, disk, mf, idx,
                   view_rows, active_time_bucket, bins, ui_enabled,
                   index_thread, filter_thread, cluster_thread, iws, cws,
                   cluster_table, view_from>>

\* An exception is raised inside a cluster worker's run
ClusterRaise(w) ==
    /\ w \in 1..Len(cws)
    /\ cws[w].pc \in {"start", "loop"}
    /\ cws' = [cws EXCEPT ![w] = ClusterCaught(@)]
    /\ queue' = queue \o ClusterSignals(cws'[w], w)
    /\ UNCHANGED <<export_thread, ews, dialogs, reader, disk, mf, idx,
                   view_rows, active_time_bucket, bins, ui_enabled,
                   index_thread, filter_thread, cluster_thread, iws, fws,
                   cluster_table, view_from>>

(***************************************************************************)
(* MainWindow (src/main.py).  The main thread takes the queued signals one *)
(* at a time, oldest first, and runs the connected slot to its end.        *)
(* on_progress and on_status only set the progress bar and the status      *)
(* label, which nothing reads, and the progress and status signals are     *)
(* left out of the queue.                                                  *)
(***************************************************************************)
MaxBins == 240

RECURSIVE SeqToSet(_)
SeqToSet(q) == IF q = <<>> THEN {} ELSE {q[1]} \cup SeqToSet(Tail(q))

\* update_timeline_bins(view_rows): the minute keys handed to
\* timeline.set_bins, those of the rows of the view that have one, and every
\* block-th of them in ascending order when there are more than max_bins
TimelineBins(ix, rows) ==
    LET keyOf(r) == IF r < Len(ix.minute_keys) THEN ix.minute_keys[r + 1] ELSE NoKey
        keys == {keyOf(r) : r \in SeqToSet(rows)} \ {NoKey}
        n == Cardinality(keys)
        block == (n + MaxBins - 1) \div MaxBins
        rank(k) == Cardinality({j \in keys : KeyLess(j, k)})
    IN  IF n > MaxBins THEN {k \in keys : rank(k) % block = 0} ELSE keys

\* list(range(n))
Range(n) == [i \in 1..n |-> i - 1]

\* Faulty variant: nothing is told to cancel
CancelledNone(ws, t) == ws

\* w.cancel() on the worker a thread attribute names, if it names one
Cancelled(ws, t) == IF t = 0 THEN ws ELSE [ws EXCEPT ![t].cancel = TRUE]

\* start_clustering(), given the rows now in the view and the index now
\* active: the filter and cluster workers at hand are told to cancel and,
\* unless the view is empty, a ClusterWorker is started (the export worker
\* at hand is told to cancel too)
start_clustering(fws0, rows, index) ==
    /\ fws' = Cancelled(fws0, filter_thread)
    /\ ews' = Cancelled(ews, export_thread)
    /\ IF rows = <<>>
       THEN /\ cws' = Cancelled(cws, cluster_thread)
            /\ cluster_table' = <<>>
            /\ cluster_thread' = cluster_thread
       ELSE /\ cws' = Append(Cancelled(cws, cluster_thread),
                             NewClusterWorker(index, rows, TRUE, MaxClusters))
            /\ cluster_table' = cluster_table
            /\ cluster_thread' = Len(cws) + 1

\* load_path(path): a path that is_valid_log_file refuses is answered with a
\* message box and nothing else; for another, every worker at hand is told
\* to cancel, the file is opened, and an IndexWorker is started unless
\* open raised.  cap bounds the number of index workers ever made.
load_path(path, cap) ==
    IF ~is_valid_log_file(path)
    THEN /\ dialogs' = dialogs \cup {"Invalid file"}
         /\ UNCHANGED <<export_thread, ews, reader, disk, mf, idx, view_rows,
                        active_time_bucket, bins, ui_enabled, index_thread,
                        filter_thread, cluster_thread, iws, fws, cws,
                        cluster_table, queue, view_from>>
    ELSE /\ Len(iws) < cap
         /\ fws' = Cancelled(fws, filter_thread)
         /\ cws' = Cancelled(cws, cluster_thread)
         /\ ews' = Cancelled(ews, export_thread)
         /\ mf' = open(mf, path, disk[path])
         /\ IF ~mf'.mapped
            THEN /\ iws' = Cancelled(iws, index_thread)
                 /\ dialogs' = dialogs \cup {"Open failed"}
                 /\ UNCHANGED <<ui_enabled, cluster_table, bins,
                                active_time_bucket, index_thread>>
            ELSE /\ ui_enabled' = FALSE
                 /\ cluster_table' = <<>>
                 /\ bins' = {}
                 /\ active_time_bucket' = NoBucket
                 /\ iws' = Append(Cancelled(iws, index_thread),
                                  NewIndexWorker(path, DefaultChunk))
                 /\ index_thread' = Len(iws) + 1
                 /\ dialogs' = dialogs
         /\ UNCHANGED <<export_thread, reader, disk, idx, view_rows,
                        filter_thread, cluster_thread, queue, view_from>>

\* load_path(path) by a user who loads at most MaxLoads files
LoadPath(path) == load_path(path, MaxLoads)

\* on_index_finished(idx)
OnIndexFinished ==
    /\ queue # <<>>
    /\ Head(queue).kind = "index" /\ Head(queue).sig = "finished"
    /\ LET index == Head(queue).payload
           all_rows == Range(index.total_lines)
       IN  /\ idx' = index
           /\ ui_enabled' = TRUE
           /\ view_rows' = all_rows
           /\ view_from' = 0
           /\ bins' = TimelineBins(index, all_rows)
           /\ start_clustering(fws, all_rows, index)
    /\ queue' = Tail(queue)
    /\ UNCHANGED <<export_thread, dialogs, reader, disk, mf, active_time_bucket,
                   index_thread, filter_thread, iws>>

\* apply_filter(), with what the filter widgets hold and the time bucket
\* that is active when it runs
apply_filter(regex_text, use_regex, level_mask, bucket) ==
    IF idx.total_lines <= 0
    THEN UNCHANGED <<fws, cws, ews, filter_thread>>
    ELSE /\ fws' = Append(Cancelled(fws, filter_thread),
                          NewFilterWorker(idx, regex_text, use_regex, level_mask,
                                          bucket))
         /\ cws' = Cancelled(cws, cluster_thread)
         /\ ews' = Cancelled(ews, export_thread)
         /\ filter_thread' = Len(fws) + 1

\* The Apply Filter button
ApplyClicked(regex_text, use_regex, level_mask) ==
    /\ ui_enabled
    /\ Len(fws) < MaxFilters
    /\ apply_filter(regex_text, use_regex, level_mask, active_time_bucket)
    /\ UNCHANGED <<export_thread, dialogs, reader, disk, mf, idx, view_rows,
                   active_time_bucket, bins, ui_enabled,
                   index_thread, cluster_thread, iws, cluster_table, queue,
                   view_from>>

\* clear_time_bucket()
ClearTimeBucket(regex_text, use_regex, level_mask) ==
    /\ ui_enabled
    /\ Len(fws) < MaxFilters
    /\ active_time_bucket # NoBucket
    /\ active_time_bucket' = NoBucket
    /\ apply_filter(regex_text, use_regex, level_mask, NoBucket)
    /\ UNCHANGED <<export_thread, dialogs, reader, disk, mf, idx, view_rows,
                   bins, ui_enabled,
                   index_thread, cluster_thread, iws, cluster_table, queue,
                   view_from>>

\* on_timeline_bucket_clicked(minute_key), for a bar of the timeline
TimelineClicked(minute_key, regex_text, use_regex, level_mask) ==
    /\ minute_key \in bins
    /\ Len(fws) < MaxFilters
    /\ active_time_bucket' = minute_key
    /\ apply_filter(regex_text, use_regex, level_mask, minute_key)
    /\ UNCHANGED <<export_thread, dialogs, reader, disk, mf, idx, view_rows,
                   bins, ui_enabled,
                   index_thread, cluster_thread, iws, cluster_table, queue,
                   view_from>>

\* export_report(fmt), with the answer cap of the export options dialog (0:
\* the dialog was dismissed, -1: all rows): an empty view is answered with a
\* message box; otherwise the filter, cluster and export workers at hand are
\* told to cancel and, unless the dialog was dismissed, an ExportWorker is
\* started on the rows of the view
ExportReport(fmt, cap) ==
    /\ ui_enabled
    /\ Len(ews) < MaxExports
    /\ IF view_rows = <<>>
       THEN /\ dialogs' = dialogs \cup {"Export"}
            /\ UNCHANGED <<fws, cws, ews, export_thread>>
       ELSE /\ dialogs' = dialogs
            /\ fws' = Cancelled(fws, filter_thread)
            /\ cws' = Cancelled(cws, cluster_thread)
            /\ IF cap = 0
               THEN /\ ews' = Cancelled(ews, export_thread)
                    /\ export_thread' = export_thread
               ELSE /\ ews' = Append(Cancelled(ews, export_thread),
                                     NewExportWorker(fmt, idx, view_rows,
                                                     IF cap < 0 THEN NoCap
                                                     ELSE cap))
                    /\ export_thread' = Len(ews) + 1
    /\ UNCHANGED <<reader, disk, mf, idx, view_rows, active_time_bucket, bins,
                   ui_enabled, index_thread, filter_thread, cluster_thread,
                   iws, cluster_table, queue, view_from>>

\* on_export_finished(message): the message is shown in the status line;
\* main.py connects the slot and does not define it in the files at hand
OnExportFinished ==
    /\ queue # <<>>
    /\ Head(queue).kind = "export" /\ Head(queue).sig = "finished"
    /\ queue' = Tail(queue)
    /\ UNCHANGED <<export_thread, ews, dialogs, reader, disk, mf, idx,
                   view_rows, active_time_bucket, bins, ui_enabled,
                   index_thread, filter_thread, cluster_thread, iws, fws, cws,
                   cluster_table, view_from>>

\* on_filter_finished(rows)
OnFilterFinished ==
    /\ queue # <<>>
    /\ Head(queue).kind = "filter" /\ Head(queue).sig = "finished"
    /\ LET rows == Head(queue).payload
       IN  /\ view_rows' = rows
           /\ view_from' = Head(queue).from
           /\ bins' = TimelineBins(idx, rows)
           /\ start_clustering(fws, rows, idx)
    /\ queue' = Tail(queue)
    /\ UNCHANGED <<export_thread, dialogs, reader, disk, mf, idx,
                   active_time_bucket, ui_enabled, index_thread, filter_thread,
                   iws>>

\* on_cluster_finished(clusters): the table gets a row for each cluster, its
\* count and its key shown and its sample kept with it
OnClusterFinished ==
    /\ queue # <<>>
    /\ Head(queue).kind = "cluster" /\ Head(queue).sig = "finished"
    /\ cluster_table' = Head(queue).payload
    /\ queue' = Tail(queue)
    /\ UNCHANGED <<export_thread, ews, dialogs, reader, disk, mf, idx, view_rows,
                   active_time_bucket, bins, ui_enabled,
                   index_thread, filter_thread, cluster_thread, iws, fws, cws,
                   view_from>>

\* on_worker_failed(trace): the failure is shown; main.py connects the slot
\* and does not define it in the files at hand
OnWorkerFailed ==
    /\ queue # <<>>
    /\ Head(queue).sig = "failed"
    /\ queue' = Tail(queue)
    /\ dialogs' = dialogs \cup {"Error"}
    /\ UNCHANGED <<export_thread, ews, reader, disk, mf, idx, view_rows,
                   active_time_bucket, bins, ui_enabled,
                   index_thread, filter_thread, cluster_thread, iws, fws, cws,
                   cluster_table, view_from>>

(***************************************************************************)
(* Files.  A log file is lines from a small catalogue, each ended by a     *)
(* line feed or by carriage return and line feed, and perhaps a fragment   *)
(* with no line feed after the last one; the indexer is also run on every  *)
(* byte string over RawBytes of at most MaxRaw bytes.                      *)
(***************************************************************************)
TS_A == <<"2","0","2","4","-","0","1","-","0","1"," ","1","0",":","0","0",":","0","1">>
TS_B == <<"2","0","2","4","-","0","1","-","0","1","T","1","0",":","0","1",":","0","2">>
TS_NEG == <<"-","0","0","1","-","0","1","-","0","1"," ","1","0",":","0","0",":","0","1">>

L_INFO == TS_A \o <<" ">> \o W_INFO \o <<" ","u","p">>
L_ERROR == TS_B \o <<" ","[">> \o W_ERROR \o <<"]"," ","n","o">>
L_WARN == TS_B \o <<" ","w","a","r","n","i","n","g",":"," ","h","m">>
L_PLAIN == <<"u","p">>
L_NEG == TS_NEG \o <<" ","x">>

RawBytes == {"a", "\n"}

RawFiles == UNION {[1..n -> RawBytes] : n \in 0..MaxRaw}

RECURSIVE Join(_)
Join(lines) ==
    IF lines = <<>> THEN <<>> ELSE lines[1] \o <<"\n">> \o Join(Tail(lines))

LogFiles ==
    {Join(<<L_INFO, L_ERROR>>),
     Join(<<L_ERROR, L_PLAIN, L_INFO>>),
     Join(<<L_WARN \o <<"\r">>, L_INFO>>) \o L_ERROR,
     Join(<<L_PLAIN, L_NEG>>),
     Join(<<<<"xFF">>, <<>>>>)}

ThePath == <<"a", ".", "l", "o", "g">>

\* An IndexWorker constructed on some file with some chunk size, nothing else
\* running
InitIndex ==
    /\ disk \in [{ThePath} -> RawFiles \cup LogFiles]
    /\ \E c \in (1..MaxChunk) \cup {DefaultChunk} :
           iws = <<NewIndexWorker(ThePath, c)>>
    /\ mf = ClosedFile
    /\ idx = EmptyIndex
    /\ view_rows = <<>>
    /\ active_time_bucket = NoBucket
    /\ bins = {}
    /\ ui_enabled = FALSE
    /\ index_thread = 0 /\ filter_thread = 0 /\ cluster_thread = 0
    /\ fws = <<>> /\ cws = <<>>
    /\ cluster_table = <<>>
    /\ queue = <<>>
    /\ view_from = 0
    /\ export_thread = 0 /\ ews = <<>>
    /\ dialogs = {}
    /\ reader = NoRead

NextIndex ==
    \/ IndexStart(1)
    \/ IndexChunk(1)
    \/ IndexCancel(1)

SpecIndex == InitIndex /\ [][NextIndex]_vars

(***************************************************************************)
(* The application: a window with nothing loaded, the files on disk, and   *)
(* a user who loads, filters and clicks while the workers run.             *)
(***************************************************************************)
AppFiles ==
    {Join(<<L_INFO, L_ERROR>>),
     <<>>}

AppRegexInputs == {<<<<>>, TRUE>>, <<<<"u","p">>, TRUE>>, <<<<"(">>, TRUE>>}

AppLevelMasks == {{}, {W_INFO}}

Init ==
    /\ disk \in [{ThePath} -> AppFiles]
    /\ mf = ClosedFile
    /\ idx = EmptyIndex
    /\ view_rows = <<>>
    /\ active_time_bucket = NoBucket
    /\ bins = {}
    /\ ui_enabled = FALSE
    /\ index_thread = 0 /\ filter_thread = 0 /\ cluster_thread = 0
    /\ iws = <<>> /\ fws = <<>> /\ cws = <<>>
    /\ cluster_table = <<>>
    /\ queue = <<>>
    /\ view_from = 0
    /\ export_thread = 0 /\ ews = <<>>
    /\ dialogs = {}
    /\ reader = NoRead

Next ==
    \/ LoadPath(ThePath)
    \/ \E w \in 1..Len(iws) : IndexStart(w) \/ IndexChunk(w)
    \/ OnIndexFinished
    \/ \E r \in AppRegexInputs, m \in AppLevelMasks :
           \/ ApplyClicked(r[1], r[2], m)
           \/ ClearTimeBucket(r[1], r[2], m)
           \/ \E k \in bins : TimelineClicked(k, r[1], r[2], m)
    \/ \E w \in 1..Len(fws) : FilterStart(w) \/ FilterRow(w)
    \/ OnFilterFinished
    \/ \E w \in 1..Len(cws) : ClusterStart(w) \/ ClusterRow(w)
    \/ OnClusterFinished
    \/ OnWorkerFailed

Spec == Init /\ [][Next]_vars

(***************************************************************************)
(* A FilterWorker alone: the window has loaded and indexed a file, Apply   *)
(* Filter has just been used, and the worker runs; cancel() may come at    *)
(* any point.                                                              *)
(***************************************************************************)
FilterFiles ==
    {Join(<<L_INFO, L_ERROR>>),
     Join(<<L_ERROR, L_PLAIN, L_INFO>>),
     Join(<<L_WARN \o <<"\r">>, L_INFO>>) \o L_ERROR,
     Join(<<L_PLAIN, L_PLAIN, L_WARN, L_INFO>>),
     Join(<<L_INFO>>),
     L_INFO}

RegexInputs ==
    {<<<<>>, TRUE>>, <<<<"u","p">>, TRUE>>, <<<<"u","p">>, FALSE>>,
     <<<<" ">>, TRUE>>, <<<<"(">>, TRUE>>, <<<<"n","o">>, TRUE>>}

LevelMasks == {{}, {W_INFO}, {W_WARN, W_ERROR}}

\* The index a never-cancelled IndexWorker(path) builds of a file
BuiltIndex(bytes) ==
    IndexResult(IndexRun(NewIndexWorker(ThePath, DefaultChunk), bytes))

InitFilter ==
    /\ disk \in [{ThePath} -> FilterFiles]
    /\ mf = MappedOpen(ThePath, disk[ThePath])
    /\ idx = BuiltIndex(disk[ThePath])
    /\ view_rows = Range(idx.total_lines)
    /\ bins = TimelineBins(idx, view_rows)
    /\ active_time_bucket \in {NoBucket} \cup bins
    /\ ui_enabled = TRUE
    /\ iws = <<IndexRun(NewIndexWorker(ThePath, DefaultChunk), disk[ThePath])>>
    /\ index_thread = 1
    /\ cws = IF view_rows = <<>> THEN <<>>
             ELSE <<[NewClusterWorker(idx, view_rows, TRUE, MaxClusters)
                       EXCEPT !.cancel = TRUE]>>
    /\ cluster_thread = Len(cws)
    /\ \E r \in RegexInputs, m \in LevelMasks :
           fws = <<NewFilterWorker(idx, r[1], r[2], m, active_time_bucket)>>
    /\ filter_thread = 1
    /\ cluster_table = <<>>
    /\ queue = <<>>
    /\ view_from = 0
    /\ export_thread = 0 /\ ews = <<>>
    /\ dialogs = {}
    /\ reader = NoRead

NextFilter ==
    \/ FilterStart(1)
    \/ FilterRow(1)
    \/ FilterCancel(1)

SpecFilter == InitFilter /\ [][NextFilter]_vars

(***************************************************************************)
(* A ClusterWorker alone: the window has loaded and indexed a file, the    *)
(* view is all its rows or every second one, and a ClusterWorker made for  *)
(* the view runs; cancel() may come at any point.                          *)
(***************************************************************************)
\* 2024-01-01 10:00:01 [INFO] Service started successfully
L_SVC ==
    <<"2","0","2","4","-","0","1","-","0","1"," ","1","0",":","0","0",":",
      "0","1"," ","[","I","N","F","O","]"," ","S","e","r","v","i","c","e",
      " ","s","t","a","r","t","e","d"," ","s","u","c","c","e","s","s","f",
      "u","l","l","y">>

\* 2024-01-01 10:00:02 [ERROR] Failed to open file /var/data/file_42.dat
L_FAIL42 ==
    <<"2","0","2","4","-","0","1","-","0","1"," ","1","0",":","0","0",":",
      "0","2"," ","[","E","R","R","O","R","]"," ","F","a","i","l","e","d",
      " ","t","o"," ","o","p","e","n"," ","f","i","l","e"," ","/","v","a",
      "r","/","d","a","t","a","/","f","i","l","e","_","4","2",".","d","a",
      "t">>

\* 2024-01-01 10:00:03 [ERROR] Failed to open file /var/data/file_7.dat
L_FAIL7 ==
    <<"2","0","2","4","-","0","1","-","0","1"," ","1","0",":","0","0",":",
      "0","3"," ","[","E","R","R","O","R","]"," ","F","a","i","l","e","d",
      " ","t","o"," ","o","p","e","n"," ","f","i","l","e"," ","/","v","a",
      "r","/","d","a","t","a","/","f","i","l","e","_","7",".","d","a","t">>

\* error 12
L_ERR12 ==
    <<"e","r","r","o","r"," ","1","2">>

\* error 13
L_ERR13 ==
    <<"e","r","r","o","r"," ","1","3">>

\* [ERROR]
L_BLOB ==
    <<"[","E","R","R","O","R","]">>

Filler(n) == [i \in 1..n |-> "a"]

\* A line whose key is cut at KeyLimit between the digits of 123b
L_TRUNC ==
    <<"E","R","R","O","R"," ">> \o Filler(KeyLimit - 9) \o <<" ","1","2","3","b">>

\* A line of more bytes than the clusterer peeks at
L_LONG == <<"f","a","i","l","e","d"," ">> \o Filler(PeekLimit)

\* A line whose only error word lies beyond the bytes the clusterer peeks at
L_FAR == Filler(PeekLimit) \o <<" ","f","a","i","l","e","d">>

\* 2024-01-01T10:00:02 failed
L_T10 ==
    <<"2","0","2","4","-","0","1","-","0","1","T","1","0",":","0","0",":",
      "0","2"," ","f","a","i","l","e","d">>

\* 2024-01-01T11:00:02 failed
L_T11 ==
    <<"2","0","2","4","-","0","1","-","0","1","T","1","1",":","0","0",":",
      "0","2"," ","f","a","i","l","e","d">>

\* failed x, failed xx, ...: as many keys as lines
ErrLine(k) == <<"f","a","i","l","e","d"," ">> \o [i \in 1..k |-> "x"]

MaxKeep == 2

\* A file that is clustered with errors-only set: its second line has no
\* error word, its third has one beyond the bytes peeked at
FarFile == Join(<<L_FAIL42, L_SVC, L_FAR>>)

ClusterFiles ==
    {Join(<<L_SVC, L_FAIL42, L_ERR12, L_FAIL7, L_ERR13, L_BLOB>>),
     Join(<<L_ERR12, L_FAIL42, L_ERR13, L_ERR12>>),
     Join(<<L_TRUNC, L_ERR12>>),
     Join(<<L_ERR12, L_LONG>>),
     FarFile,
     Join(<<L_T10, L_T11>>),
     Join([k \in 1..(MaxKeep + 1) |-> ErrLine(k)] \o <<ErrLine(MaxKeep + 1)>>)}

\* Every second row, from row 0 on
EvenRows(n) == [i \in 1..((n + 1) \div 2) |-> 2 * (i - 1)]

InitCluster ==
    /\ disk \in [{ThePath} -> ClusterFiles]
    /\ mf = MappedOpen(ThePath, disk[ThePath])
    /\ idx = BuiltIndex(disk[ThePath])
    /\ view_rows \in {Range(idx.total_lines), EvenRows(idx.total_lines)}
    /\ bins = TimelineBins(idx, view_rows)
    /\ active_time_bucket = NoBucket
    /\ ui_enabled = TRUE
    /\ iws = <<IndexRun(NewIndexWorker(ThePath, DefaultChunk), disk[ThePath])>>
    /\ index_thread = 1
    /\ fws = <<>>
    /\ filter_thread = 0
    /\ \E only_errors \in BOOLEAN,
          max_clusters \in (1..MaxKeep) \cup {DefaultMaxClusters, MaxClusters} :
           /\ cws = <<NewClusterWorker(idx, view_rows, only_errors, max_clusters)>>
           /\ disk[ThePath] = FarFile => only_errors
    /\ cluster_thread = 1
    /\ cluster_table = <<>>
    /\ queue = <<>>
    /\ view_from = 0
    /\ export_thread = 0 /\ ews = <<>>
    /\ dialogs = {}
    /\ reader = NoRead

NextCluster ==
    \/ ClusterStart(1)
    \/ ClusterRow(1)
    \/ ClusterCancel(1)

SpecCluster == InitCluster /\ [][NextCluster]_vars

(***************************************************************************)
(* Claims about the indexer.                                               *)
(***************************************************************************)
\* The 1-based places of the line feeds of a byte string
LineFeeds(bytes) == {p \in 1..Len(bytes) : bytes[p] = "\n"}

\* The 1-based place of the i-th line feed, which is also the 0-based
\* position of the byte after it
NthLineFeed(bytes, i) ==
    CHOOSE p \in LineFeeds(bytes) :
        Cardinality({q \in LineFeeds(bytes) : q <= p}) = i

\* The finished signals of index workers that ran to the end of their file
CompletedIndexSignals ==
    {k \in 1..Len(queue) : /\ queue[k].kind = "index"
                           /\ queue[k].sig = "finished"
                           /\ iws[queue[k].from].pc = "done"}

\* C1: a completed IndexWorker run yields total_lines equal to the number of
\* line-feed bytes of the file, whatever the chunk size; bytes after the last
\* line feed add no row.
C1_TotalLinesCountsLineFeeds ==
    \A k \in CompletedIndexSignals :
        queue[k].payload.total_lines =
            Cardinality(LineFeeds(disk[iws[queue[k].from].path]))

\* C1 witness: a run that took several reads, over a file with two line
\* feeds and an unterminated fragment after them, has completed.
C1_Witness ==
    \E k \in CompletedIndexSignals :
        LET w == iws[queue[k].from]
            bytes == disk[w.path]
        IN  /\ w.chunk_size < Len(bytes)
            /\ Cardinality(LineFeeds(bytes)) = 2
            /\ bytes[Len(bytes)] # "\n"
            /\ queue[k].payload.total_lines = 2

\* C2 (as claimed): in a completed index offsets[0] = 0 and offsets[i], for
\* 1 <= i <= total_lines, is one plus the position of the i-th line feed,
\* for every chunk size.
C2_OffsetsAreLineStarts ==
    \A k \in CompletedIndexSignals :
        LET ix == queue[k].payload
            bytes == disk[iws[queue[k].from].path]
        IN  /\ ix.offsets[1] = 0
            /\ \A i \in 1..ix.total_lines :
                   ix.offsets[i + 1] = NthLineFeed(bytes, i)

\* C3 (as claimed): in a completed index offsets[i] < offsets[i+1] for every
\* row i < total_lines, and the last row's offset is below the file size.
C3_OffsetsIncreaseBelowSize ==
    \A k \in CompletedIndexSignals :
        LET ix == queue[k].payload
        IN  /\ \A i \in 0..(ix.total_lines - 1) :
                   ix.offsets[i + 1] < ix.offsets[i + 2]
            /\ ix.total_lines > 0 =>
                   ix.offsets[ix.total_lines] < ix.file_size

\* The lengths an index must have, with the placeholder in slot 0
HasSlotZero(ix) ==
    /\ Len(ix.offsets) = ix.total_lines + 1
    /\ Len(ix.minute_keys) = ix.total_lines + 1
    /\ Len(ix.level_ints) = ix.total_lines + 1
    /\ ix.minute_keys[1] = NoKey
    /\ ix.level_ints[1] = NoLevel

\* The finished signals of index workers, completed or cancelled
IndexSignalsQueued ==
    {k \in 1..Len(queue) : queue[k].kind = "index" /\ queue[k].sig = "finished"}

\* C4 (as claimed): every LogIndex the window holds or an IndexWorker emits,
\* on completion, on cancellation and the initial empty one, has
\* total_lines + 1 entries in each array, slot 0 being (0, 255).
C4_EveryIndexHasSlotZero ==
    /\ HasSlotZero(idx)
    /\ \A k \in IndexSignalsQueued : HasSlotZero(queue[k].payload)

\* C4 (amended): the index a completed run emits has total_lines + 1 entries
\* in each array with slot 0 being (0, 255); the index emitted on
\* cancellation and the window's initial index are LogIndex.empty(), whose
\* arrays have no entry at all, with total_lines 0 and file_size 0.
C4_BuiltIndexHasSlotZero ==
    /\ \A k \in IndexSignalsQueued :
           IF iws[queue[k].from].pc = "done"
           THEN HasSlotZero(queue[k].payload)
           ELSE queue[k].payload = LogIndex(<<>>, <<>>, <<>>, 0, 0)
    /\ \/ idx = LogIndex(<<>>, <<>>, <<>>, 0, 0)
       \/ HasSlotZero(idx)

\* C4 witness: a run over a file of two lines or more, read in several
\* chunks, has completed and emitted its index.
C4_Witness ==
    \E k \in CompletedIndexSignals :
        /\ queue[k].payload.total_lines >= 2
        /\ iws[queue[k].from].chunk_size < queue[k].payload.file_size
        /\ idx = EmptyIndex

(***************************************************************************)
(* Claims about the filter.                                                *)
(***************************************************************************)
\* The finished signals of filter workers whose run ended in one of pcs
FilterSignalsQueued(pcs) ==
    {k \in 1..Len(queue) : /\ queue[k].kind = "filter"
                           /\ queue[k].sig = "finished"
                           /\ fws[queue[k].from].pc \in pcs}

\* The predicate of filter worker fw evaluated on the text of the line that
\* starts at offsets[row]
OwnLineSatisfies(fw, row) ==
    LET line == readline_at(mf, fw.idx.offsets[row + 1], ReadLimit)
        lvl == detect_level(line)
        ts == parse_ts_compact(line)
    IN  /\ fw.level_mask # {} => (lvl = <<>> \/ lvl \in fw.level_mask)
        /\ fw.time_bucket_minute # NoBucket =>
               (ts.ok /\ ts.minute_key = fw.time_bucket_minute)
        /\ RegexActive(fw) => ReSearch(fw.regex_text, line)

\* C5 (as claimed): every row of a completed filter result satisfies the
\* predicate evaluated on the raw line that starts at offsets[row]: its own
\* level is unknown or in the whitelist, its own minute key is the bucket,
\* its text matches the regex.
C5_RowsSatisfyOwnLine ==
    \A k \in FilterSignalsQueued({"done"}) :
        \A j \in 1..Len(queue[k].payload) :
            OwnLineSatisfies(fws[queue[k].from], queue[k].payload[j])

StrictlyAscending(rows) ==
    \A j \in 1..(Len(rows) - 1) : rows[j] < rows[j + 1]

\* C6: what a FilterWorker collects and emits, completed or cancelled, is a
\* strictly ascending sequence of row numbers of 0..total_lines-1 (so
\* without duplicates), all below the row the scan has come to.
C6_ResultAscendingInRange ==
    /\ \A w \in 1..Len(fws) :
           /\ StrictlyAscending(fws[w].out)
           /\ \A j \in 1..Len(fws[w].out) :
                  fws[w].out[j] \in 0..(fws[w].i - 1)
           /\ fws[w].i <= fws[w].idx.total_lines
    /\ \A k \in FilterSignalsQueued({"done", "cancelled"}) :
           /\ StrictlyAscending(queue[k].payload)
           /\ \A j \in 1..Len(queue[k].payload) :
                  queue[k].payload[j] \in 0..(fws[queue[k].from].idx.total_lines - 1)

\* C6 witness: a worker has emitted two rows or more, having left out a row
\* before the last one it emitted.
C6_Witness ==
    \E k \in FilterSignalsQueued({"done", "cancelled"}) :
        LET rows == queue[k].payload
        IN  /\ Len(rows) >= 2
            /\ rows[Len(rows)] > Len(rows) - 1

\* No level whitelist, no time bucket, no regex in force
NoPredicate(fw) ==
    /\ fw.level_mask = {}
    /\ fw.time_bucket_minute = NoBucket
    /\ ~fw.use_regex \/ Strip(fw.regex_text) = <<>>

\* C7: a completed run with an empty level set, no time bucket and no active
\* regex (use_regex off, or a blank pattern) returns 0, 1, ..., total_lines-1.
C7_NoPredicateKeepsAll ==
    \A k \in FilterSignalsQueued({"done"}) :
        NoPredicate(fws[queue[k].from]) =>
            queue[k].payload = [j \in 1..fws[queue[k].from].idx.total_lines |-> j - 1]

\* C7 witness: a run with a pattern typed in but use_regex off has completed
\* over three rows or more, one of which the pattern would not match.
C7_Witness ==
    \E k \in FilterSignalsQueued({"done"}) :
        LET fw == fws[queue[k].from]
        IN  /\ NoPredicate(fw)
            /\ ~fw.use_regex /\ fw.regex_text # <<>>
            /\ Len(queue[k].payload) >= 3
            /\ \E r \in 0..(fw.idx.total_lines - 1) :
                   ~ReSearch(fw.regex_text,
                             readline_at(mf, fw.idx.offsets[r + 1], ReadLimit))

\* C8: with a non-empty whitelist and no time bucket or regex, every row
\* whose recorded level code is 255 is in the completed result.
C8_UnknownLevelKept ==
    \A k \in FilterSignalsQueued({"done"}) :
        LET fw == fws[queue[k].from]
        IN  (/\ fw.level_mask # {}
             /\ fw.time_bucket_minute = NoBucket
             /\ ~RegexActive(fw)) =>
                \A r \in 0..(fw.idx.total_lines - 1) :
                    fw.idx.level_ints[r + 1] = NoLevel =>
                        \E j \in 1..Len(queue[k].payload) : queue[k].payload[j] = r

\* C8 witness: such a run has completed, keeping a row after row 0 whose
\* recorded level is 255 and dropping another row for its level.
C8_Witness ==
    \E k \in FilterSignalsQueued({"done"}) :
        LET fw == fws[queue[k].from]
            rows == queue[k].payload
        IN  /\ fw.level_mask # {}
            /\ fw.time_bucket_minute = NoBucket
            /\ ~RegexActive(fw)
            /\ \E j \in 1..Len(rows) :
                   rows[j] > 0 /\ fw.idx.level_ints[rows[j] + 1] = NoLevel
            /\ Len(rows) < fw.idx.total_lines

\* The rows the run of fw delivers when it is never cancelled
FullResult(fw) ==
    FilterRun(NewFilterWorker(fw.idx, fw.regex_text, fw.use_regex, fw.level_mask,
                              fw.time_bucket_minute), mf).out

IsPrefix(p, q) == Len(p) <= Len(q) /\ SubSeq(q, 1, Len(p)) = p

\* C9: the row list a cancelled FilterWorker delivers is a prefix of the
\* list the same run delivers when never cancelled, so it is no longer.
C9_CancelledResultIsPrefix ==
    \A k \in FilterSignalsQueued({"cancelled"}) :
        /\ IsPrefix(queue[k].payload, FullResult(fws[queue[k].from]))
        /\ Len(queue[k].payload) <= Len(FullResult(fws[queue[k].from]))

\* C9 witness: a worker cancelled in mid-scan has delivered some rows, fewer
\* than the whole run delivers, after having skipped a row.
C9_Witness ==
    \E k \in FilterSignalsQueued({"cancelled"}) :
        LET rows == queue[k].payload
        IN  /\ Len(rows) >= 1
            /\ Len(rows) < Len(FullResult(fws[queue[k].from]))
            /\ fws[queue[k].from].i > Len(rows)

\* C10 (as claimed): the partial result of a cancelled FilterWorker is not
\* installed by the window as the active view.
C10_CancelledResultNeverInstalled ==
    view_from # 0 => fws[view_from].pc # "cancelled"


(***************************************************************************)
(* Claims about the orchestration of tasks.                                *)
(***************************************************************************)
\* The worker a thread attribute of the window names, by kind of task
ThreadOf(kind) ==
    IF kind = "index" THEN index_thread
    ELSE IF kind = "filter" THEN filter_thread
    ELSE cluster_thread

\* The signal at the head of the queue comes from a worker that is no longer
\* the one most recently started of its kind
StaleHead == queue # <<>> /\ Head(queue).from # ThreadOf(Head(queue).kind)

\* The main thread runs the slot for the signal at the head of the queue
HeadHandled == queue # <<>> /\ queue' = Tail(queue)

\* C11: when the main thread takes a terminal signal (finished or failed) of
\* a worker that is not the most recently started of its kind, the active
\* index, the view and the cluster table stay as they are and no worker is
\* told to cancel.
C11_StaleResultIgnored ==
    [][(StaleHead /\ HeadHandled) =>
          /\ idx' = idx
          /\ view_rows' = view_rows
          /\ cluster_table' = cluster_table
          /\ \A w \in 1..Len(iws) : iws'[w].cancel = iws[w].cancel
          /\ \A w \in 1..Len(fws) : fws'[w].cancel = fws[w].cancel
          /\ \A w \in 1..Len(cws) : cws'[w].cancel = cws[w].cancel]_vars

\* Every worker has ended its run and the main thread has taken every signal
Settled ==
    /\ queue = <<>>
    /\ \A w \in 1..Len(iws) : iws[w].pc \in {"done", "cancelled", "failed"}
    /\ \A w \in 1..Len(fws) : fws[w].pc \in {"done", "cancelled", "failed"}
    /\ \A w \in 1..Len(cws) : cws[w].pc \in {"done", "cancelled"}

\* C12: last started, last honoured.  After one load, when the filter was
\* applied (the last time with a pattern that compiles) and everything that
\* was started has ended and been delivered, so that the view can change no
\* more without the user, the view is the complete result of the filter
\* applied last over the active index.
C12_LastStartedLastHonoured ==
    (/\ Settled
     /\ Len(iws) = 1
     /\ fws # <<>>
     /\ fws[Len(fws)].idx = idx
     /\ ~(RegexActive(fws[Len(fws)]) /\ ~ReCompiles(fws[Len(fws)].regex_text)))
    => view_rows = FullResult(fws[Len(fws)])

(***************************************************************************)
(* Claims about cancellation of the indexer and of the clusterer.          *)
(***************************************************************************)
\* The places in the queue of the signals of index worker w
SignalsOfIndexWorker(w) ==
    {k \in 1..Len(queue) : queue[k].kind = "index" /\ queue[k].from = w}

\* C13: an IndexWorker polls its cancel flag at the top of each turn of its
\* chunk loop, before it reads: a turn that finds the flag set reads nothing
\* and ends the run, and the run then has sent exactly one signal, finished,
\* carrying the empty index (no offsets, total_lines 0, file_size 0) whatever
\* it had built, and nothing on failed.  An index that is not empty comes only
\* from a run that read the whole file.
C13_IndexCancelEmitsEmpty ==
    /\ [](\A w \in 1..Len(iws) :
            /\ iws[w].pc = "cancelled" =>
                   /\ Cardinality(SignalsOfIndexWorker(w)) = 1
                   /\ \A k \in SignalsOfIndexWorker(w) :
                          /\ queue[k].sig = "finished"
                          /\ queue[k].payload.offsets = <<>>
                          /\ queue[k].payload.minute_keys = <<>>
                          /\ queue[k].payload.level_ints = <<>>
                          /\ queue[k].payload.total_lines = 0
                          /\ queue[k].payload.file_size = 0
            /\ \A k \in SignalsOfIndexWorker(w) :
                   (queue[k].sig = "finished" /\ queue[k].payload.offsets # <<>>)
                   => (iws[w].pc = "done" /\ iws[w].pos = Len(disk[iws[w].path])))
    /\ [][\A w \in 1..Len(iws) :
             (iws[w].pc = "loop" /\ iws[w].cancel /\ iws'[w] # iws[w])
             => (iws'[w] = [iws[w] EXCEPT !.pc = "cancelled"])]_vars

\* C13 witness: a run was cancelled after it had indexed a line or more,
\* and has sent its signal
C13_Witness ==
    /\ iws[1].pc = "cancelled"
    /\ Len(iws[1].offsets) > 1
    /\ iws[1].pos < Len(disk[iws[1].path])
    /\ SignalsOfIndexWorker(1) # {}

\* The places in the queue of the signals of cluster worker w
SignalsOfClusterWorker(w) ==
    {k \in 1..Len(queue) : queue[k].kind = "cluster" /\ queue[k].from = w}

\* C14: a ClusterWorker polls its cancel flag at the top of each turn of its
\* row loop: a turn that finds the flag set looks at no row and ends the run,
\* and the run then has sent exactly one signal, finished, carrying the empty
\* list whatever it had counted.  A list that is not empty comes only from a
\* run that went through every row of its view.
C14_ClusterCancelEmitsEmpty ==
    /\ [](\A w \in 1..Len(cws) :
            /\ cws[w].pc = "cancelled" =>
                   /\ Cardinality(SignalsOfClusterWorker(w)) = 1
                   /\ \A k \in SignalsOfClusterWorker(w) :
                          queue[k].sig = "finished" /\ queue[k].payload = <<>>
            /\ \A k \in SignalsOfClusterWorker(w) :
                   queue[k].payload # <<>>
                   => (cws[w].pc = "done" /\ cws[w].j = Len(cws[w].view_rows)))
    /\ [][\A w \in 1..Len(cws) :
             (cws[w].pc = "loop" /\ cws[w].cancel /\ cws'[w] # cws[w]
              /\ cws[w].j < Len(cws[w].view_rows))
             => (cws'[w] = [cws[w] EXCEPT !.pc = "cancelled"])]_vars

\* C14 witness: a run was cancelled after it had counted a key, and has sent
\* its signal
C14_Witness ==
    /\ cws[1].pc = "cancelled"
    /\ cws[1].counts # <<>>
    /\ SignalsOfClusterWorker(1) # {}

(***************************************************************************)
(* Claims about the clusters of a completed run.                           *)
(***************************************************************************)
\* The places in the queue of the results of completed cluster runs
CompletedClusterSignals ==
    {k \in 1..Len(queue) : /\ queue[k].kind = "cluster"
                           /\ queue[k].sig = "finished"
                           /\ cws[queue[k].from].pc = "done"}

\* The key of the j-th row of the view of cw, from the row's line as the run
\* reads it
KeyAt(cw, j) == ClusterKey(ClusterLine(cw, cw.view_rows[j], mf))

\* The places in the view of cw of the rows the only_errors test keeps
KeptPlaces(cw) ==
    {j \in 1..Len(cw.view_rows) : ~ClusterSkips(cw, cw.view_rows[j], mf)}

\* The kept places whose key is key
PlacesOfKey(cw, key) == {j \in KeptPlaces(cw) : KeyAt(cw, j) = key}

\* C15: in the list a completed ClusterWorker run sends, no key is empty, no
\* two entries have the same key, and the count of an entry is the number of
\* kept rows of the view whose normalized message is its key, which is one
\* or more.
C15_CountsAreRowsPerKey ==
    \A k \in CompletedClusterSignals :
        LET cw == cws[queue[k].from]
            out == queue[k].payload
        IN  \A p \in 1..Len(out) :
                /\ out[p].key # <<>>
                /\ out[p].count >= 1
                /\ out[p].count = Cardinality(PlacesOfKey(cw, out[p].key))
                /\ \A q \in 1..Len(out) : q # p => out[q].key # out[p].key

\* C15 witness: a completed run has sent two clusters or more, one of them
\* of two rows or more, from a view that has a row with no key
C15_Witness ==
    \E k \in CompletedClusterSignals :
        /\ Len(queue[k].payload) >= 2
        /\ \E p \in 1..Len(queue[k].payload) : queue[k].payload[p].count >= 2
        /\ \E j \in KeptPlaces(cws[queue[k].from]) :
               KeyAt(cws[queue[k].from], j) = <<>>

\* The first kept place of a key in the view
FirstPlace(cw, key) ==
    CHOOSE j \in PlacesOfKey(cw, key) : \A h \in PlacesOfKey(cw, key) : j <= h

\* The keys of the kept rows that are not in a list of clusters
OmittedKeys(cw, out) ==
    {KeyAt(cw, j) : j \in KeptPlaces(cw)}
        \ ({<<>>} \cup {out[p].key : p \in 1..Len(out)})

\* What C16 says of order and size
TopByCount(cw, out) ==
    /\ Len(out) <= cw.max_clusters
    /\ \A p, q \in 1..Len(out) :
           p < q => /\ out[p].count >= out[q].count
                    /\ out[p].count = out[q].count
                       => FirstPlace(cw, out[p].key) < FirstPlace(cw, out[q].key)
    /\ \A key \in OmittedKeys(cw, out) :
           /\ Len(out) = cw.max_clusters
           /\ \A p \in 1..Len(out) :
                  Cardinality(PlacesOfKey(cw, key)) <= out[p].count

\* C16 (as claimed): the list of a completed run has at most max_clusters
\* entries, counts never increasing, equal counts in the order their keys
\* first come in the view, no key left out that has a greater count than one
\* let in, and with each entry the whole first line of its key.
C16_TopClustersWithFirstLine ==
    \A k \in CompletedClusterSignals :
        LET cw == cws[queue[k].from]
            out == queue[k].payload
        IN  /\ TopByCount(cw, out)
            /\ \A p \in 1..Len(out) :
                   out[p].sample =
                       readline_at(mf, cw.idx.offsets[
                                           cw.view_rows[FirstPlace(cw, out[p].key)] + 1],
                                   ReadLimit)

\* C16 (amended): as above, but the sample is the first SampleLimit
\* characters of what the run read of the first line of its key, which is
\* not more than PeekLimit bytes of it when only_errors is set and the level
\* recorded for the row is not ERROR, FATAL or CRITICAL, and not more than
\* LineLimit bytes otherwise.
C16_TopClustersWithBoundedSample ==
    \A k \in CompletedClusterSignals :
        LET cw == cws[queue[k].from]
            out == queue[k].payload
        IN  /\ TopByCount(cw, out)
            /\ \A p \in 1..Len(out) :
                   out[p].sample =
                       Slice(ClusterLine(cw, cw.view_rows[FirstPlace(cw, out[p].key)],
                                         mf), 0, SampleLimit)

\* C16 witness: a completed run has sent as many clusters as max_clusters
\* lets it, two or more, and has left a key out
C16_Witness ==
    \E k \in CompletedClusterSignals :
        /\ Len(queue[k].payload) >= 2
        /\ OmittedKeys(cws[queue[k].from], queue[k].payload) # {}

(***************************************************************************)
(* Claims about normalize_message_for_cluster.                             *)
(***************************************************************************)
\* C17: normalizing a key again gives the key: for every message a run has
\* normalized and counted, normalize(normalize(m)) = normalize(m), keys cut
\* at KeyLimit characters and marked among them.
C17_NormalizeIdempotent ==
    \A w \in 1..Len(cws) :
        \A p \in 1..Len(cws[w].counts) :
            normalize_message_for_cluster(cws[w].counts[p].key)
                = cws[w].counts[p].key

(***************************************************************************)
(* Claims about the fields of a row and the key of a line.                 *)
(***************************************************************************)
\* What is left of a line when its first TsLen characters and the blank
\* after them are taken away
AfterTimestamp(line) == SliceFrom(line, TsLen + 1)

\* C18: at whatever row of the file the line
\* 2024-01-01 10:00:01 [INFO] Service started successfully
\* is, the fields read for that row are the timestamp, the level INFO and the
\* message Service started successfully.
C18_ServiceLineFields ==
    \A r \in 0..(idx.total_lines - 1) :
        readline_at(mf, idx.offsets[r + 1], ReadLimit) = L_SVC
        => _get_fields(mf, idx, r)
               = <<Slice(L_SVC, 0, TsLen), W_INFO,
                   SliceFrom(AfterTimestamp(L_SVC), Len(W_INFO) + 3)>>

\* Failed to open file <path>
KEY_FAIL ==
    <<"F","a","i","l","e","d"," ","t","o"," ","o","p","e","n"," ","f","i",
      "l","e"," ","<","p","a","t","h",">">>

\* The places of the view of cw, among those its run has gone through, whose
\* row is the line L_FAIL42
FailPlacesDone(cw) ==
    {j \in 1..cw.j :
        readline_at(mf, cw.idx.offsets[cw.view_rows[j] + 1], ReadLimit) = L_FAIL42}

\* C19: when a ClusterWorker has gone through a row of its view that is the
\* line 2024-01-01 10:00:02 [ERROR] Failed to open file /var/data/file_42.dat
\* the key it made for the row is Failed to open file <path>, and that key
\* is counted.
C19_FailedToOpenKey ==
    \A w \in 1..Len(cws) :
        cws[w].pc \in {"loop", "done", "cancelled"} =>
            \A j \in FailPlacesDone(cws[w]) :
                /\ KeyAt(cws[w], j) = KEY_FAIL
                /\ HasKey(cws[w].counts, KEY_FAIL)

\* C19 witness: a run has gone through such a row and ended, and its list
\* has the key
C19_Witness ==
    /\ cws[1].pc = "done"
    /\ FailPlacesDone(cws[1]) # {}
    /\ \E k \in CompletedClusterSignals :
           \E p \in 1..Len(queue[k].payload) : queue[k].payload[p].key = KEY_FAIL

(***************************************************************************)
(* Claims about loading.                                                   *)
(***************************************************************************)
\* C20: when load_path has been run on a .log file of 0 bytes, the file was
\* opened without a failure and an IndexWorker was started for it.
C20_EmptyFileLoads ==
    (Len(disk[ThePath]) = 0 /\ mf.fh)
    => (~OpenFailed(mf) /\ index_thread # 0)

(***************************************************************************)
(* A MappedLogFile alone: one thread opens and closes it on the paths at   *)
(* hand while another calls readline_at; the steps of the two interleave   *)
(* as those of the main thread and of a worker thread do, for the workers  *)
(* are handed the window's MappedLogFile itself.                           *)
(***************************************************************************)
MaxRead == 3       \* largest small max_bytes tried (besides the default)

AccFileA == <<"a", "\r", "\r", "\n", "xFF", "b", "\n", "c", "\r">>
AccFileB == <<"\n", "z">>

OtherPath == <<"b", ".", "l", "o", "g">>
VoidPath == <<"v", ".", "l", "o", "g">>
GonePath == <<"g", ".", "l", "o", "g">>

AccPaths == {ThePath, OtherPath, VoidPath, GonePath}

AccOffsets == (0 - 1)..(Len(AccFileA) + 1)

ReadSizes == (0..MaxRead) \cup {ReadLimit}

InitAccessor ==
    /\ disk = [p \in {ThePath, OtherPath, VoidPath} |->
                  IF p = ThePath THEN AccFileA
                  ELSE IF p = OtherPath THEN AccFileB ELSE <<>>]
    /\ mf = ClosedFile
    /\ idx = EmptyIndex
    /\ view_rows = <<>>
    /\ active_time_bucket = NoBucket
    /\ bins = {}
    /\ ui_enabled = FALSE
    /\ index_thread = 0 /\ filter_thread = 0 /\ cluster_thread = 0
    /\ iws = <<>> /\ fws = <<>> /\ cws = <<>>
    /\ cluster_table = <<>>
    /\ queue = <<>>
    /\ view_from = 0
    /\ export_thread = 0 /\ ews = <<>>
    /\ dialogs = {}
    /\ reader = NoRead

NextAccessor ==
    \/ \E p \in AccPaths : OpenClose(p)
    \/ OpenMap
    \/ Close
    \/ \E o \in AccOffsets, n \in ReadSizes : ReadCall(o, n)
    \/ ReadFind
    \/ ReadSlice
    \/ ReadReturn

SpecAccessor == InitAccessor /\ [][NextAccessor]_vars

(***************************************************************************)
(* The accessor.                                                           *)
(***************************************************************************)
\* C21: readline_at never raises, whatever the offset and whatever another
\* thread does to the accessor while the call is under way.
C21_ReadNeverRaises == reader.pc # "raised"

\* C21, the part about a call nothing disturbs: it returns a text, the empty
\* one when no mapping is open
C21_UndisturbedReadReturns ==
    /\ (reader.pc # "idle" /\ ~reader.raced) => reader.pc # "raised"
    /\ (reader.pc = "done" /\ ~reader.raced /\ ~mf.mapped) => reader.result = <<>>

\* The bytes from offset up to the next line feed or the end of the file, at
\* most max_bytes of them
LineBytes(bytes, offset, max_bytes) ==
    LET lfs == {i \in (offset + 1)..Len(bytes) : bytes[i] = "\n"}
        n == IF lfs = {} THEN Len(bytes) - offset
             ELSE (CHOOSE i \in lfs : \A j \in lfs : i <= j) - 1 - offset
    IN  SubSeq(bytes, offset + 1, offset + Min(n, max_bytes))

\* C22: for an open mapping and 0 <= offset <= size, readline_at returns the
\* bytes from offset up to the next line feed or the end of the file, at
\* most max_bytes of them and no line feed among them, less one carriage
\* return when they end in one (decoded: each byte is one character of the
\* text).
C22_ReadLineBytes ==
    (/\ reader.pc = "done" /\ ~reader.raced
     /\ mf.mapped
     /\ reader.offset \in 0..mf.size)
    => LET raw == LineBytes(mf.mm, reader.offset, reader.max_bytes)
       IN  /\ Len(raw) <= reader.max_bytes
           /\ \A i \in 1..Len(raw) : raw[i] # "\n"
           /\ reader.result =
                  IF raw # <<>> /\ raw[Len(raw)] = "\r"
                  THEN Decode(SubSeq(raw, 1, Len(raw) - 1))
                  ELSE Decode(raw)

\* a line cut by max_bytes after two carriage returns: one is removed
C22_Witness ==
    /\ reader.pc = "done" /\ ~reader.raced
    /\ mf.mapped /\ mf.mm = AccFileA
    /\ reader.offset = 0 /\ reader.max_bytes = 3
    /\ reader.result = <<"a", "\r">>

\* C23: whatever open and close calls were made, the accessor holds at most
\* one file handle and at most one mapping, those its fields refer to, and
\* close() leaves it with no path, size 0, no handle and no mapping, where a
\* second close() changes nothing.
C23_OneMappingHeld ==
    /\ mf.handles = (IF mf.fh THEN 1 ELSE 0)
    /\ mf.maps = (IF mf.mapped THEN 1 ELSE 0)
    /\ close(mf) = ClosedFile
    /\ close(close(mf)) = close(mf)

\* the accessor maps the second file after a read of the first was answered
C23_Witness ==
    /\ mf.mapped /\ mf.path = OtherPath /\ mf.mm = AccFileB
    /\ reader.pc = "done" /\ reader.raced /\ reader.result = <<"a">>

(***************************************************************************)
(* The workers alone, each as in the three specifications of one worker,   *)
(* where an exception may also be raised inside run at any point.          *)
(***************************************************************************)
InitFault ==
    \/ InitIndex
    \/ InitFilter
    \/ InitCluster /\ Len(disk[ThePath]) < 200

NextFault ==
    \/ NextIndex
    \/ NextFilter
    \/ NextCluster
    \/ IndexRaise(1)
    \/ FilterRaise(1)
    \/ ClusterRaise(1)

SpecFault == InitFault /\ [][NextFault]_vars

(***************************************************************************)
(* The window at work: a log file of one line and, beside it, paths that   *)
(* load_path is to refuse; the user loads, filters and exports while the   *)
(* workers run.                                                            *)
(***************************************************************************)
TaskFile == Join(<<L_INFO>>)

TxtPath == <<"a", ".", "t", "x", "t">>
DirPath == <<"d", ".", "l", "o", "g">>
NulPath == <<"n", ".", "l", "o", "g">>

\* the empty path, a directory, a file of another extension, a symbolic link
\* to a log file, a log file with a NUL byte, and the log file itself
TaskPaths == {<<>>, DirPath, TxtPath, LinkPath, NulPath, ThePath}

TaskRegexInputs == {<<<<"u","p">>, TRUE>>, <<<<"(">>, TRUE>>}

TaskCaps == {0, 0 - 1}

InitTasks ==
    /\ disk = [p \in {ThePath, TxtPath, LinkPath, NulPath} |->
                  IF p = NulPath THEN <<"a", "x00", "\n">> ELSE TaskFile]
    /\ mf = ClosedFile
    /\ idx = EmptyIndex
    /\ view_rows = <<>>
    /\ active_time_bucket = NoBucket
    /\ bins = {}
    /\ ui_enabled = FALSE
    /\ index_thread = 0 /\ filter_thread = 0 /\ cluster_thread = 0
    /\ iws = <<>> /\ fws = <<>> /\ cws = <<>>
    /\ cluster_table = <<>>
    /\ queue = <<>>
    /\ view_from = 0
    /\ export_thread = 0 /\ ews = <<>>
    /\ dialogs = {}
    /\ reader = NoRead

NextTasks ==
    \/ \E p \in TaskPaths : LoadPath(p)
    \/ \E w \in 1..Len(iws) : IndexStart(w) \/ IndexChunk(w)
    \/ OnIndexFinished
    \/ \E r \in TaskRegexInputs : ApplyClicked(r[1], r[2], {})
    \/ \E cap \in TaskCaps : ExportReport("csv", cap)
    \/ \E w \in 1..Len(fws) : FilterStart(w) \/ FilterRow(w)
    \/ \E w \in 1..Len(cws) : ClusterStart(w) \/ ClusterRow(w)
    \/ \E w \in 1..Len(ews) : ExportStart(w) \/ ExportRow(w)
    \/ OnFilterFinished
    \/ OnClusterFinished
    \/ OnExportFinished
    \/ OnWorkerFailed

SpecTasks == InitTasks /\ [][NextTasks]_vars

(***************************************************************************)
(* Failures and tasks.                                                     *)
(***************************************************************************)
\* The regex option of a filter worker is active and its pattern malformed
Malformed(fw) == RegexActive(fw) /\ ~ReCompiles(fw.regex_text)

\* C24: a precondition failure is reported before any background work
\* starts: a worker made for a malformed regex exists only once the failure
\* has been shown, and the filter and cluster workers that ran when the
\* request was made have not been told to cancel for it.
C24_FailureReportedBeforeWork ==
    \A w \in 1..Len(fws) : Malformed(fws[w]) => "Error" \in dialogs

\* C24, the part about files: a refused path starts no index worker
C24_RefusedPathStartsNothing ==
    [][\A p \in TaskPaths :
          (~is_valid_log_file(p) /\ LoadPath(p))
          => (iws' = iws /\ fws' = fws /\ cws' = cws /\ ews' = ews)]_vars

\* C25 (the worker): a filter worker made for a malformed regex visits no
\* row, keeps none, and sends failed and never finished.
C25_MalformedRegexFailsFirst ==
    \A w \in 1..Len(fws) :
        Malformed(fws[w]) =>
            /\ fws[w].pc \in {"start", "failed"}
            /\ fws[w].i = 0 /\ fws[w].out = <<>>
            /\ \A k \in 1..Len(queue) :
                   (queue[k].kind = "filter" /\ queue[k].from = w)
                   => queue[k].sig = "failed"

\* C25: when the regex option is active and the pattern malformed, the
\* worker reports the failure before visiting any row and sends no row
\* list, and the view stays what it was when the filter was requested: no
\* step taken while the worker of a malformed regex is the last one
\* requested changes the view.
C25_MalformedRegexLeavesView ==
    /\ []C25_MalformedRegexFailsFirst
    /\ [][(/\ fws # <<>>
           /\ Malformed(fws[Len(fws)])
           /\ Len(fws') = Len(fws)
           /\ ui_enabled)
          => view_rows' = view_rows]_vars

\* C27: at every moment at most one worker of each type is in its scan loop.
C27_OneScanPerType ==
    /\ Cardinality({w \in 1..Len(iws) : iws[w].pc = "loop"}) <= 1
    /\ Cardinality({w \in 1..Len(fws) : fws[w].pc = "loop"}) <= 1
    /\ Cardinality({w \in 1..Len(cws) : cws[w].pc = "loop"}) <= 1

\* C26: whenever a new filter or cluster worker is started, the filter,
\* cluster and export workers the window referred to until then have their
\* cancel flag set.
C26_CancelBeforeStart ==
    [][(Len(fws') > Len(fws) \/ Len(cws') > Len(cws))
       => /\ filter_thread # 0 => fws'[filter_thread].cancel
          /\ cluster_thread # 0 => cws'[cluster_thread].cancel
          /\ export_thread # 0 => ews'[export_thread].cancel]_vars

\* a second filter worker and a later cluster worker were started while an
\* export worker was referred to
C26_Witness ==
    /\ Len(fws) = 2 /\ fws[1].cancel
    /\ Len(cws) >= 2 /\ cws[1].cancel
    /\ ews # <<>> /\ ews[1].cancel /\ ews[1].pc = "cancelled"

SignalsOfFilterWorker(w) ==
    {k \in 1..Len(queue) : queue[k].kind = "filter" /\ queue[k].from = w}

\* C28: a run in which an exception was raised has sent failed and nothing
\* else, so no list or index, partial or whole, comes from it; a run that
\* sent finished either got to its end or found its cancel flag set.
C28_FaultEmitsFailedOnly ==
    /\ \A w \in 1..Len(iws) :
           /\ iws[w].pc = "failed" =>
                  /\ Cardinality(SignalsOfIndexWorker(w)) = 1
                  /\ \A k \in SignalsOfIndexWorker(w) : queue[k].sig = "failed"
           /\ iws[w].pc = "cancelled" => iws[w].cancel
    /\ \A w \in 1..Len(fws) :
           /\ fws[w].pc = "failed" =>
                  /\ Cardinality(SignalsOfFilterWorker(w)) = 1
                  /\ \A k \in SignalsOfFilterWorker(w) : queue[k].sig = "failed"
           /\ fws[w].pc = "cancelled" => fws[w].cancel
    /\ \A w \in 1..Len(cws) :
           /\ cws[w].pc = "failed" =>
                  /\ Cardinality(SignalsOfClusterWorker(w)) = 1
                  /\ \A k \in SignalsOfClusterWorker(w) : queue[k].sig = "failed"
           /\ cws[w].pc = "cancelled" => cws[w].cancel

\* a filter worker failed after it had kept a row
C28_Witness ==
    \E w \in 1..Len(fws) :
        /\ fws[w].pc = "failed" /\ ~Malformed(fws[w])
        /\ fws[w].out # <<>>
        /\ \E k \in SignalsOfFilterWorker(w) : queue[k].sig = "failed"

\* a cluster worker failed after it had counted a row
C28_WitnessCluster ==
    \E w \in 1..Len(cws) : cws[w].pc = "failed" /\ cws[w].counts # <<>>

\* an index worker failed after it had recorded a line
C28_WitnessIndex ==
    \E w \in 1..Len(iws) : iws[w].pc = "failed" /\ Len(iws[w].offsets) > 1

\* is_valid_log_file is to refuse the path: it is empty, no regular file is
\* there, its name does not end in .log, it is a symbolic link, or there is a
\* NUL byte in the first 8 KB of the file
FailsValidation(p) ==
    \/ p = <<>>
    \/ p \notin DOMAIN disk
    \/ ~EndsWith(Lower(p), <<".", "l", "o", "g">>)
    \/ islink(p)
    \/ \E i \in 1..Len(disk[p]) : i <= SniffLen /\ disk[p][i] = "x00"

\* C30: load_path on a path that fails validation shows the refusal and
\* changes nothing else: the mapping, the index, the view and the workers
\* are what they were, and nothing is told to cancel.
C30_RefusedPathChangesNothing ==
    [][\A p \in TaskPaths :
          (FailsValidation(p) /\ LoadPath(p))
          => /\ "Invalid file" \in dialogs'
             /\ UNCHANGED <<disk, mf, idx, view_rows, active_time_bucket, bins,
                            ui_enabled, index_thread, filter_thread,
                            cluster_thread, export_thread, iws, fws, cws, ews,
                            cluster_table, queue, view_from>>]_vars

\* a path was refused, and a file is mapped and indexed and a filter worker
\* in its loop
C30_Witness ==
    /\ "Invalid file" \in dialogs
    /\ mf.mapped /\ idx.total_lines > 0 /\ view_rows # <<>>
    /\ filter_thread # 0 /\ fws[filter_thread].pc = "loop"

\* C29: a run of IndexWorker on a file that can be read ends with finished,
\* never with failed, whatever the bytes of the file.
C29_ReadableFileNeverFails ==
    \A w \in 1..Len(iws) :
        /\ iws[w].pc # "failed"
        /\ \A k \in SignalsOfIndexWorker(w) : queue[k].sig # "failed"

(***************************************************************************)
(* Reads, metadata slots and keys.                                         *)
(***************************************************************************)
\* The level recorded in slot i of a filter worker's index passes its
\* whitelist, and the minute key recorded there its time bucket
SlotPasses(fw, i) ==
    /\ \/ fw.level_mask = {}
       \/ fw.idx.level_ints[i + 1] = NoLevel
       \/ INT_TO_LEVEL(fw.idx.level_ints[i + 1]) \in fw.level_mask
    /\ \/ fw.time_bucket_minute = NoBucket
       \/ fw.idx.minute_keys[i + 1] = fw.time_bucket_minute

\* C31: a FilterWorker reads a row's text through the accessor only when a
\* regex is active and the row has passed the level filter and the time
\* bucket filter, and it reads every such row it visits once; with no active
\* regex a run reads nothing.
C31_ReadsOnlyForRegex ==
    \A w \in 1..Len(fws) :
        /\ ~(fws[w].use_regex /\ Strip(fws[w].regex_text) # <<>>)
               => fws[w].reads = <<>>
        /\ \A k \in 1..Len(fws[w].reads) : SlotPasses(fws[w], fws[w].reads[k])
        /\ (fws[w].use_regex /\ Strip(fws[w].regex_text) # <<>>)
               => \A r \in 0..(fws[w].i - 1) :
                      SlotPasses(fws[w], r)
                      => Cardinality({k \in 1..Len(fws[w].reads) :
                                         fws[w].reads[k] = r}) = 1

\* a run with an active regex has read some of the rows it visited and
\* passed over others without reading them
C31_Witness ==
    \E w \in 1..Len(fws) :
        /\ fws[w].pc = "done"
        /\ fws[w].reads # <<>>
        /\ Len(fws[w].reads) < fws[w].i

\* The i-th line of bytes (i >= 1), without its line feed: the bytes of row
\* i - 1
NthLine(bytes, i) ==
    Slice(bytes, IF i = 1 THEN 0 ELSE NthLineFeed(bytes, i - 1),
                 NthLineFeed(bytes, i) - 1)

\* What the indexer detects in a line: the minute key and the level code of
\* its first PrefixLen bytes, decoded
LineMetadata(line) ==
    LET line_prefix == Decode(Slice(line, 0, Min(PrefixLen, Len(line))))
        ts == parse_ts_compact(line_prefix)
        lvl == detect_level(line_prefix)
    IN  <<IF ts.ok THEN ts.minute_key ELSE NoKey,
          IF lvl # <<>> THEN LEVEL_TO_INT(lvl) ELSE NoLevel>>

\* C32: in every completed index slot i of minute_keys and level_ints, for
\* 1 <= i <= total_lines, holds the metadata detected from the first at most
\* 256 bytes of the i-th line of the file, which is row i - 1 and ends where
\* row i starts; slot 0, the one row 0 reads, holds the placeholder (0, 255).
C32_SlotHoldsPreviousLine ==
    \A k \in CompletedIndexSignals :
        LET ix == queue[k].payload
            bytes == disk[iws[queue[k].from].path]
        IN  /\ <<ix.minute_keys[1], ix.level_ints[1]>> = <<NoKey, NoLevel>>
            /\ \A i \in 1..ix.total_lines :
                   <<ix.minute_keys[i + 1], ix.level_ints[i + 1]>> =
                       LineMetadata(NthLine(bytes, i))

\* C32 witness: a completed index of a file whose first line is an ERROR
\* line and whose second is not: slot 1, which row 1 reads, holds ERROR, and
\* row 0 reads the placeholder.
C32_Witness ==
    \E k \in CompletedIndexSignals :
        LET ix == queue[k].payload
            bytes == disk[iws[queue[k].from].path]
        IN  /\ ix.total_lines >= 2
            /\ detect_level(Decode(NthLine(bytes, 1))) = W_ERROR
            /\ detect_level(Decode(NthLine(bytes, 2))) # W_ERROR
            /\ ix.level_ints[2] = LEVEL_TO_INT(W_ERROR)
            /\ ix.level_ints[1] = NoLevel
            /\ ix.minute_keys[2] # ix.minute_keys[3]

\* A step of cluster worker w that visits a row of its view
ClusterVisits(w) ==
    /\ w \in 1..Len(cws)
    /\ cws[w].pc = "loop"
    /\ cws'[w].j = cws[w].j + 1

\* The row cluster worker w is at
ClusterAt(w) == cws[w].view_rows[cws[w].j + 1]

\* The condition of the errors-only selection on a row of worker cw, read off
\* the file: its recorded level is ERROR, FATAL or CRITICAL, or the first
\* PeekLimit bytes of its line, upper-cased, hold one of the four words
ErrorRow(cw, row) ==
    \/ INT_TO_LEVEL(cw.idx.level_ints[row + 1]) \in {W_ERROR, W_FATAL, W_CRITICAL}
    \/ HasErrorWord(Decode(LineBytes(disk[ThePath], cw.idx.offsets[row + 1],
                                     PeekLimit)))

\* C33 (as claimed): with errors-only set, a visited row is counted if and
\* only if its recorded level is ERROR, FATAL or CRITICAL or the upper-cased
\* first 4096 bytes of its line contain EXCEPTION, TRACEBACK, FAILED or ERROR.
C33_CountedIffErrorRow ==
    [][\A w \in 1..Len(cws) :
           (ClusterVisits(w) /\ cws[w].only_errors) =>
               ((cws'[w].counts # cws[w].counts) <=>
                    ErrorRow(cws[w], ClusterAt(w)))]_vars

\* C33 (amended): with errors-only set, a visited row is counted if and only
\* if its recorded level is ERROR, FATAL or CRITICAL or the upper-cased first
\* 4096 bytes of its line contain one of the four words, and its normalized
\* key is not empty; a row meeting neither condition is never counted, and a
\* row with a recorded error level and a key is counted whatever its text.
C33_CountedIffErrorRowWithKey ==
    [][\A w \in 1..Len(cws) :
           (ClusterVisits(w) /\ cws[w].only_errors) =>
               ((cws'[w].counts # cws[w].counts) <=>
                    (/\ ErrorRow(cws[w], ClusterAt(w))
                     /\ ClusterKey(ClusterLine(cws[w], ClusterAt(w), mf)) # <<>>))]_vars

\* The rows of the file of three lines whose second has a recorded error level
\* and no error word and whose third has its only error word beyond the peek
C33_OnLevelFile ==
    /\ disk[ThePath] = FarFile
    /\ cws[1].only_errors
    /\ cws[1].view_rows = <<0, 1, 2>>

\* C33 witness: an errors-only run over that file has ended with two rows
\* counted: row 0 for its error word, row 1 for its recorded level alone, and
\* row 2 passed over.
C33_Witness ==
    /\ C33_OnLevelFile
    /\ cws[1].pc = "done"
    /\ Len(cws[1].counts) = 2
    /\ ~HasErrorWord(Decode(L_SVC))
    /\ ErrorRow(cws[1], 1)
    /\ ~ErrorRow(cws[1], 2)

\* The key that a step of cluster worker w has counted is key
ClusterCounted(w, key) ==
    /\ cws'[w].counts # cws[w].counts
    /\ \E k \in 1..Len(cws'[w].counts) :
           /\ cws'[w].counts[k].key = key
           /\ \/ k > Len(cws[w].counts)
              \/ cws'[w].counts[k].n # cws[w].counts[k].n

\* The text of the row cluster worker w is at, read off the file
ClusterAtText(w) ==
    Decode(LineBytes(disk[ThePath], cws[w].idx.offsets[ClusterAt(w) + 1],
                     LineLimit))

\* C34 (as claimed): when a row is counted whose line begins with a
\* recognized 19-character timestamp, whatever the line's length, the key
\* counted is the normalization of the line without the timestamp and the
\* blanks, hyphens, tabs and pipes after it (so lines that differ only in
\* their timestamps get one key).
C34_TimestampAlwaysCut ==
    [][\A w \in 1..Len(cws) :
           (/\ ClusterVisits(w)
            /\ cws'[w].counts # cws[w].counts
            /\ parse_ts_compact(ClusterAtText(w)).ok) =>
               ClusterCounted(w,
                   normalize_message_for_cluster(
                       LStrip(SliceFrom(ClusterAtText(w), TsLen),
                              {" ", "-", "\t", "|"})))]_vars

(***************************************************************************)
(* The window reloading: a log file of two lines is loaded, and the user   *)
(* loads another of one line, or an empty one that cannot be mapped,       *)
(* while the first file's workers and signals are still about.             *)
(***************************************************************************)
NextPath == <<"b", ".", "l", "o", "g">>
EmptyPath == <<"e", ".", "l", "o", "g">>

ReloadPaths == {ThePath, NextPath, EmptyPath}

InitReload ==
    /\ disk = [p \in ReloadPaths |->
                  IF p = ThePath THEN Join(<<L_ERR12, L_ERR13>>)
                  ELSE IF p = NextPath THEN Join(<<L_PLAIN>>)
                  ELSE <<>>]
    /\ mf = ClosedFile
    /\ idx = EmptyIndex
    /\ view_rows = <<>>
    /\ active_time_bucket = NoBucket
    /\ bins = {}
    /\ ui_enabled = FALSE
    /\ index_thread = 0 /\ filter_thread = 0 /\ cluster_thread = 0
    /\ iws = <<>> /\ fws = <<>> /\ cws = <<>>
    /\ cluster_table = <<>>
    /\ queue = <<>>
    /\ view_from = 0
    /\ export_thread = 0 /\ ews = <<>>
    /\ dialogs = {}
    /\ reader = NoRead

NextReload ==
    \/ \E p \in ReloadPaths : load_path(p, MaxReloads)
    \/ \E w \in 1..Len(iws) : IndexStart(w) \/ IndexChunk(w)
    \/ OnIndexFinished
    \/ \E w \in 1..Len(cws) : ClusterStart(w) \/ ClusterRow(w)
    \/ OnClusterFinished

SpecReload == InitReload /\ [][NextReload]_vars

\* A cluster worker that will resolve a row at its next turn
ClusterWillRead(cw) ==
    cw.pc = "loop" /\ ~cw.cancel /\ cw.j < Len(cw.view_rows)

\* C35 (as claimed): whenever the table model has rows to resolve, or a
\* cluster worker is about to resolve one, the accessor maps the file that
\* the index in use was built from: across load_path the mapping and the
\* active index are swapped together, and no completed index is installed
\* while the accessor maps another file.
C35_AccessorMapsIndexedFile ==
    /\ (mf.mapped /\ view_rows # <<>>) => idx = BuiltIndex(mf.mm)
    /\ \A w \in 1..Len(cws) :
           (mf.mapped /\ ClusterWillRead(cws[w])) =>
               cws[w].idx = BuiltIndex(mf.mm)

\* C37 (as claimed): when load_path is given a path that is_valid_log_file
\* accepts and that cannot be mapped, the file loaded before stays usable:
\* the accessor keeps its mapping, the index and the view stay, no worker is
\* told to cancel, and the rows of the view resolve to the text they had.
C37_FailedOpenKeepsLoadedFile ==
    [][\A p \in ReloadPaths :
           (/\ mf.mapped
            /\ is_valid_log_file(p) /\ disk[p] = <<>>
            /\ load_path(p, MaxReloads)) =>
               /\ mf'.mapped /\ mf'.mm = mf.mm
               /\ idx' = idx /\ view_rows' = view_rows
               /\ iws' = iws /\ cws' = cws
               /\ \A j \in 1..Len(view_rows) :
                      readline_at(mf', idx.offsets[view_rows[j] + 1], ReadLimit) =
                          readline_at(mf, idx.offsets[view_rows[j] + 1], ReadLimit)]_vars

(***************************************************************************)
(* The workers alone, each on its own thread: a thread that has been       *)
(* started runs run() to its return, so a run that can take a step does    *)
(* not stay where it is for ever.  That is weak fairness of the steps of   *)
(* each run, WF_vars(IndexStart(1) \/ IndexChunk(1)) and so on, written    *)
(* with the guard of the steps, RunCanStep, for their being enabled.       *)
(* Cancellation and exceptions may come or not.                            *)
(***************************************************************************)
\* run of the worker of ws has a step to take
RunCanStep(ws) == ws # <<>> /\ ws[1].pc \in {"start", "loop"}

SpecRuns ==
    /\ InitFault
    /\ [][NextFault]_vars
    /\ <>[]RunCanStep(iws) => []<><<IndexStart(1) \/ IndexChunk(1)>>_vars
    /\ <>[]RunCanStep(fws) => []<><<FilterStart(1) \/ FilterRow(1)>>_vars
    /\ <>[]RunCanStep(cws) => []<><<ClusterStart(1) \/ ClusterRow(1)>>_vars

Ended(ws) == \A w \in 1..Len(ws) : ws[w].pc \in {"done", "cancelled", "failed"}

TerminalSignals == {"finished", "failed"}

\* A step from worker object me to after that emits e emits at most one
\* terminal signal, as its last, and does so exactly when it ends the run;
\* that signal is the one queued for the main thread
TerminalLast(e, me, after) ==
    /\ me.pc \in {"start", "loop"}
    /\ \A k \in 1..(Len(e) - 1) : e[k] \notin TerminalSignals
    /\ IF after.pc \in {"done", "cancelled", "failed"}
       THEN /\ e # <<>> /\ e[Len(e)] \in TerminalSignals
            /\ Len(queue') = Len(queue) + 1
            /\ queue'[Len(queue')].sig = e[Len(e)]
       ELSE /\ \A k \in 1..Len(e) : e[k] \notin TerminalSignals
            /\ queue' = queue

\* The number of signals the main thread was sent by the worker or workers
\* ws of one kind, which has or have ended or not (where a filter or a
\* cluster worker runs, the index worker ran before and its signal was
\* handled)
OneSignalEach(ws, signals) ==
    Cardinality(signals) = (IF ws # <<>> /\ Ended(ws) THEN 1 ELSE 0)

\* C36: every run of an IndexWorker, a FilterWorker and a ClusterWorker
\* comes to its end, cancelled or not; a run that has ended has sent one
\* terminal signal, finished or failed, and one that has not has sent none;
\* the terminal signal is the last signal of the step that ends the run, and
\* a run that has ended takes no step, so no progress or status follows it.
C36_RunsEndWithOneSignal ==
    /\ <>(Ended(iws) /\ Ended(fws) /\ Ended(cws))
    /\ [](/\ (fws = <<>> /\ cws = <<>>) =>
                 OneSignalEach(iws, SignalsOfIndexWorker(1))
          /\ OneSignalEach(fws, SignalsOfFilterWorker(1))
          /\ OneSignalEach(cws, SignalsOfClusterWorker(1)))
    /\ [][/\ \A w \in 1..Len(iws) :
                 iws'[w] # iws[w] =>
                     TerminalLast(IndexEmits(iws[w], iws'[w]), iws[w], iws'[w])
          /\ \A w \in 1..Len(fws) :
                 fws'[w] # fws[w] =>
                     TerminalLast(FilterEmits(fws[w], fws'[w]), fws[w], fws'[w])
          /\ \A w \in 1..Len(cws) :
                 cws'[w] # cws[w] =>
                     TerminalLast(ClusterEmits(cws[w], cws'[w]), cws[w], cws'[w])]_vars

\* C36 witness: a cluster run that was cancelled after it had visited a row
\* has ended, and the queue holds its one signal, finished.
C36_Witness ==
    /\ cws # <<>> /\ cws[1].pc = "cancelled" /\ cws[1].j > 0
    /\ \A k \in SignalsOfClusterWorker(1) : queue[k].sig = "finished"
    /\ Cardinality(SignalsOfClusterWorker(1)) = 1

=========================================================================
